---------------------------- MODULE Spec2Model ----------------------------
(***************************************************************************)
(* Model of the Not_GPT transformation pipeline (src/backend/main.py,      *)
(* src/cli.py) and of its three stages (src/backend/transformers) with the *)
(* two collaborators they use: the sentence segmenter                      *)
(* (src/backend/nlp/korean.py) and the rewriting client                    *)
(* (src/backend/utils/openai_client.py), and of the metrics engine         *)
(* (src/backend/nlp/metrics.py).                                           *)
(*                                                                         *)
(* Texts.  A text is a sequence of tokens.  A token is either one          *)
(* whitespace character (WS) or a chunk: a run of nw words separated by    *)
(* single spaces that holds no sentence boundary inside.  A chunk records  *)
(* what the code reads of it: its number of words (str.split), its number  *)
(* of characters (len), the class of its first character (st) and of its   *)
(* last character (en), whether it starts with one of the colloquial       *)
(* markers (mk) and which connector phrase it is (cn, 0 for none).         *)
(*                                                                         *)
(* Numbers.  The intensity is kept in tenths (0..10).  A draw of           *)
(* random.random() is kept in hundredths: the draw R stands for a value    *)
(* of the open interval (R/100, (R+1)/100), so that r < c * intensity is   *)
(* R < 10 * c * tenths for every constant c of the code.                   *)
(***************************************************************************)
EXTENDS Integers, Sequences, FiniteSets, TLC

-----------------------------------------------------------------------------
(* Tokens *)

WS == [id |-> 0, nw |-> 0, len |-> 1, st |-> "ws", en |-> "ws", mk |-> FALSE, cn |-> 0]

Chunk(i, n, l, s, e) ==
    [id |-> i, nw |-> n, len |-> l, st |-> s, en |-> e, mk |-> FALSE, cn |-> 0]

IsWS(tok) == tok.st = "ws"

RECURSIVE SumNW(_)
SumNW(t) == IF t = << >> THEN 0 ELSE Head(t).nw + SumNW(Tail(t))

RECURSIVE SumLen(_)
SumLen(t) == IF t = << >> THEN 0 ELSE Head(t).len + SumLen(Tail(t))

\* len(text.split()): the number of whitespace-separated words
WordCount(t) == SumNW(t)

\* len(text): the number of characters
TextLen(t) == SumLen(t)

\* not text.strip(): the text is empty or holds whitespace only
IsBlank(t) == \A j \in 1..Len(t) : IsWS(t[j])

RECURSIVE LStrip(_)
LStrip(t) == IF t # << >> /\ IsWS(Head(t)) THEN LStrip(Tail(t)) ELSE t

RECURSIVE RStrip(_)
RStrip(t) ==
    IF t # << >> /\ IsWS(t[Len(t)]) THEN RStrip(SubSeq(t, 1, Len(t) - 1)) ELSE t

\* str.strip()
Strip(t) == RStrip(LStrip(t))

\* re.sub(r'\s+', ' ', text): every run of whitespace becomes one space
RECURSIVE Collapse(_)
Collapse(t) ==
    IF Len(t) < 2 THEN t
    ELSE IF IsWS(t[1]) /\ IsWS(t[2]) THEN Collapse(Tail(t))
    ELSE <<Head(t)>> \o Collapse(Tail(t))

\* " ".join(sentences)
RECURSIVE Join(_)
Join(ss) ==
    IF ss = << >> THEN << >>
    ELSE IF Len(ss) = 1 THEN ss[1]
    ELSE ss[1] \o <<WS>> \o Join(Tail(ss))

-----------------------------------------------------------------------------
(* Sentence segmentation: KoreanNLP.split_sentences *)

SingleCharLimit == 1
AltPatternMinLen == 100

\* sentence_pattern (alt = FALSE) and alt_pattern (alt = TRUE) match the
\* whitespace at position j of the normalised text
Boundary(t, j, alt) ==
    /\ 1 < j /\ j < Len(t)
    /\ IsWS(t[j])
    /\ \/ t[j - 1].en = "punct"
       \/ /\ ~alt
          /\ t[j - 1].en = "kor"
          /\ t[j + 1].st \in {"upper", "kor", "quote"}

\* re.split(pattern, text), from position start on
RECURSIVE ReSplit(_, _, _)
ReSplit(t, start, alt) ==
    LET cuts == {j \in start..Len(t) : Boundary(t, j, alt)}
    IN  IF cuts = {} THEN <<SubSeq(t, start, Len(t))>>
        ELSE LET j == CHOOSE c \in cuts : \A d \in cuts : c <= d
             IN  <<SubSeq(t, start, j - 1)>> \o ReSplit(t, j + 1, alt)

RECURSIVE CleanFilter(_, _)
CleanFilter(raw, minLen) ==
    IF raw = << >> THEN << >>
    ELSE LET s == Strip(Head(raw))
         IN  (IF s # << >> /\ TextLen(s) > minLen THEN <<s>> ELSE << >>)
                 \o CleanFilter(Tail(raw), minLen)

split_sentences(text) ==
    IF IsBlank(text) THEN << >>
    ELSE LET norm == Collapse(Strip(text))
             sentences == CleanFilter(ReSplit(norm, 1, FALSE), SingleCharLimit)
             retried ==
                 IF Len(sentences) <= 1 /\ TextLen(norm) > AltPatternMinLen
                 THEN CleanFilter(ReSplit(norm, 1, TRUE), 0)
                 ELSE sentences
         IN  IF retried # << >> THEN retried ELSE <<norm>>

-----------------------------------------------------------------------------
(* The rewriting collaborator: OpenAIClient *)

\* What the service answers to one call: the content of the first choice.
\* fmt "plain": the lines of a free text (items, separated by line breaks);
\* fmt "array": a well-formed JSON array of the strings items;
\* fmt "broken": a text that starts with "[" and is not well-formed JSON.
PlainReply(lines) == [fmt |-> "plain", items |-> lines]
ArrayReply(elems) == [fmt |-> "array", items |-> elems]
BrokenReply == [fmt |-> "broken", items |-> << >>]

\* OpenAIClient.transform_text: response.choices[0].message.content.strip();
\* a line break is one whitespace character of the returned text
transform_text(reply) == Strip(Join(reply.items))

\* [s.strip() for s in result.split("\n") if s.strip()]
RECURSIVE StripLines(_)
StripLines(lines) ==
    IF lines = << >> THEN << >>
    ELSE (IF Strip(Head(lines)) # << >> THEN <<Strip(Head(lines))>> ELSE << >>)
             \o StripLines(Tail(lines))

\* OpenAIClient.split_sentence, given the answer of its transform_text call
split_sentence(sentence, reply) ==
    IF reply.fmt = "array" THEN reply.items
    ELSE IF reply.fmt = "broken" THEN <<sentence>>
    ELSE StripLines(reply.items)

\* an answer is usable when it holds text: a rewrite that is not empty, a
\* split that yields at least one sentence and no empty sentence
UsableText(reply) == reply.fmt = "plain" /\ transform_text(reply) # << >>
UsableSplit(sentence, reply) ==
    LET res == split_sentence(sentence, reply)
    IN  res # << >> /\ \A j \in 1..Len(res) : ~IsBlank(res[j])

-----------------------------------------------------------------------------
(* Structure stage: the per-sentence decision *)

SplitShare == 3
MergeShare == 2
ParaphraseShare == 3
SplitMinWords == 20
MergeMaxWords == 10
SplitGuardWords == 12
SingleSplitWords == 15
ReorderGate == 6
ReorderMinSentences == 3
SwapShare == 5

\* the thresholds of _decide_action, in hundredths, for an intensity in tenths
split_threshold(tenths) == SplitShare * tenths
merge_threshold(tenths) == split_threshold(tenths) + MergeShare * tenths
paraphrase_threshold(tenths) == merge_threshold(tenths) + ParaphraseShare * tenths

\* a decision that also fires when the draw equals the threshold
decide_action_inclusive(word_count, tenths, rand) ==
    IF word_count > SplitMinWords /\ rand <= split_threshold(tenths) THEN "split"
    ELSE IF word_count < MergeMaxWords /\ rand <= merge_threshold(tenths)
         THEN "merge"
    ELSE IF rand <= paraphrase_threshold(tenths) THEN "paraphrase"
    ELSE "keep"

\* StructureTransformer._decide_action with its draw rand (hundredths)
decide_action(word_count, tenths, rand) ==
    IF word_count > SplitMinWords /\ rand < split_threshold(tenths) THEN "split"
    ELSE IF word_count < MergeMaxWords /\ rand < merge_threshold(tenths)
         THEN "merge"
    ELSE IF rand < paraphrase_threshold(tenths) THEN "paraphrase"
    ELSE "keep"

\* a loop that merges without asking for a next sentence
performed_action_unguarded(word_count, tenths, rand, hasNext) ==
    LET action == decide_action(word_count, tenths, rand)
    IN  IF action = "split" /\ word_count > SplitGuardWords THEN "split"
        ELSE IF action = "merge" THEN "merge"
        ELSE IF action = "paraphrase" THEN "paraphrase"
        ELSE "keep"

\* the branch StructureTransformer.transform takes for the decided action
performed_action(word_count, tenths, rand, hasNext) ==
    LET action == decide_action(word_count, tenths, rand)
    IN  IF action = "split" /\ word_count > SplitGuardWords THEN "split"
        ELSE IF action = "merge" /\ hasNext THEN "merge"
        ELSE IF action = "paraphrase" THEN "paraphrase"
        ELSE "keep"

\* num_swaps = int(len(middle) * intensity * 0.5)
num_swaps(middleLen, tenths) == (middleLen * tenths * SwapShare) \div 100

\* middle[idx1], middle[idx2] = middle[idx2], middle[idx1], where middle is
\* a swap that counts its indices from the first sentence of the list
SwapFromFirst(ss, idx1, idx2) ==
    [ss EXCEPT ![idx1 + 1] = ss[idx2 + 1], ![idx2 + 1] = ss[idx1 + 1]]

\* sentences[1:-1]: its index idx is position idx + 2 of the list counted from 1
SwapMiddle(ss, idx1, idx2) ==
    [ss EXCEPT ![idx1 + 2] = ss[idx2 + 2], ![idx2 + 2] = ss[idx1 + 2]]

-----------------------------------------------------------------------------
(* The phrase tables of the stages *)

Min(a, b) == IF a < b THEN a ELSE b
Max(a, b) == IF a > b THEN a ELSE b

\* CONNECTOR_VARIATIONS: its keys in the order of the dictionary
NumConnectors == 10

\* the key c as it stands in a text
Connector(c) ==
    [id |-> 200 + c, nw |-> IF c = 8 THEN 2 ELSE 1,
     len |-> CASE c = 4 -> 2 [] c = 7 -> 4 [] c = 8 -> 5 [] c = 9 -> 1
               [] c = 10 -> 2 [] OTHER -> 3,
     st |-> "kor", en |-> "none", mk |-> (c = 10), cn |-> c]

\* len(variations) of the key c
NumAlternatives(c) ==
    CASE c \in {1, 3, 5} -> 5 [] c = 7 -> 3 [] OTHER -> 4

\* the key an alternative is itself, 0 when it is none
AlternativeKey(c, a) ==
    CASE c = 1 /\ a = 1 -> 2
      [] c = 2 /\ a = 1 -> 1
      [] c = 3 /\ a = 1 -> 4
      [] c = 4 /\ a = 1 -> 3
      [] c = 5 /\ a = 1 -> 6
      [] c = 6 /\ a = 1 -> 5
      [] OTHER -> 0

\* the first entry of the table that is the same phrase as variations[a - 1]
\* of the key c
SamePhrase(c, a) ==
    CASE <<c, a>> = <<2, 2>> -> <<1, 2>>
      [] <<c, a>> = <<4, 2>> -> <<3, 2>>
      [] <<c, a>> = <<6, 2>> -> <<5, 2>>
      [] <<c, a>> = <<4, 4>> -> <<3, 3>>
      [] OTHER -> <<c, a>>

\* variations[a - 1] of the key c; equal phrases are equal tokens
Alternative(c, a) ==
    IF AlternativeKey(c, a) # 0 THEN Connector(AlternativeKey(c, a)) ELSE
    [id |-> 300 + 10 * SamePhrase(c, a)[1] + SamePhrase(c, a)[2],
     nw |-> IF <<c, a>> \in {<<3, 5>>, <<4, 3>>, <<5, 4>>, <<5, 5>>, <<6, 4>>,
                             <<7, 1>>, <<9, 1>>, <<9, 2>>, <<9, 3>>}
            THEN 2 ELSE 1,
     len |-> IF AlternativeKey(c, a) # 0 THEN Connector(AlternativeKey(c, a)).len
             ELSE CASE <<c, a>> \in {<<1, 5>>, <<2, 3>>, <<2, 4>>, <<5, 3>>,
                                     <<8, 2>>, <<10, 4>>} -> 2
                    [] <<c, a>> \in {<<1, 2>>, <<2, 2>>, <<5, 2>>, <<6, 2>>,
                                     <<6, 4>>, <<7, 3>>, <<8, 3>>} -> 4
                    [] <<c, a>> \in {<<5, 4>>, <<5, 5>>, <<6, 3>>, <<7, 1>>,
                                     <<8, 4>>, <<9, 1>>} -> 5
                    [] <<c, a>> \in {<<4, 3>>, <<9, 2>>, <<9, 3>>} -> 6
                    [] <<c, a>> = <<3, 5>> -> 7
                    [] OTHER -> 3,
     st |-> IF <<c, a>> = <<7, 3>> THEN "other" ELSE "kor",
     en |-> "none",
     mk |-> (<<c, a>> \in {<<5, 3>>, <<10, 2>>, <<10, 3>>, <<10, 4>>}),
     cn |-> AlternativeKey(c, a)]

\* COLLOQUIAL_INSERTIONS, UNEXPECTED_TRANSITIONS, PARENTHETICAL_INSERTS
NumColloquial == 10
NumTransitions == 10
NumParentheticals == 5

\* f"{insertion}," for COLLOQUIAL_INSERTIONS[m - 1]
ColloquialToken(m) ==
    [id |-> 400 + m, nw |-> 1,
     len |-> CASE m \in {1, 2, 8} -> 3 [] m = 6 -> 5 [] OTHER -> 4,
     st |-> "kor", en |-> "none", mk |-> TRUE, cn |-> IF m = 2 THEN 10 ELSE 0]

\* f"{transition}," for UNEXPECTED_TRANSITIONS[m - 1]
TransitionToken(m) ==
    [id |-> 500 + m,
     nw |-> CASE m \in {3, 5} -> 3 [] m \in {4, 6, 7, 9} -> 2 [] OTHER -> 1,
     len |-> CASE m \in {1, 2} -> 6 [] m \in {3, 5} -> 11 [] m \in {4, 8} -> 7
               [] m \in {6, 7} -> 9 [] m = 9 -> 8 [] OTHER -> 4,
     st |-> "kor", en |-> "none", mk |-> (m = 9), cn |-> 0]

\* PARENTHETICAL_INSERTS[m - 1]
ParentheticalToken(m) ==
    [id |-> 600 + m,
     nw |-> CASE m = 1 -> 6 [] m = 3 -> 4 [] m = 4 -> 5 [] OTHER -> 2,
     len |-> CASE m = 1 -> 21 [] m = 2 -> 10 [] m = 3 -> 17 [] m = 4 -> 19
               [] OTHER -> 13,
     st |-> "other", en |-> "none", mk |-> FALSE,
     cn |-> CASE m = 1 -> 10 [] m = 3 -> 2 [] OTHER -> 0]

\* sentence[0].lower() + sentence[1:]
LowerFirst(sentence) ==
    IF sentence = << >> THEN sentence
    ELSE [sentence EXCEPT ![1].st = IF @ = "upper" THEN "lower" ELSE @]

\* any(sentence.startswith(c) for c in COLLOQUIAL_INSERTIONS)
StartsWithMarker(sentence) == sentence # << >> /\ sentence[1].mk

-----------------------------------------------------------------------------
(* Bounds and the inputs drawn within them *)

NumTexts == 6
NumPipelineTexts == 4
NumSentenceReplies == 1
NumTextReplies == 2
NumSplitReplies == 5
NumStepTexts == 4
NumConnectorTexts == 4
MaxRequests == 2
MaxCount == 12
\* the entries of a phrase list that random.choice is let to pick
MaxChoice == 2

\* a sentence of n words that starts with a Korean letter and ends with "."
Sent(i, n) == Chunk(i, n, 3 * n, "kor", "punct")

InputText(k) ==
    CASE k = 1 -> <<WS, WS>>
      [] k = 2 -> <<Sent(1, 5), WS, Sent(2, 21), WS, Sent(3, 12), WS, Sent(4, 6)>>
      [] k = 3 -> <<Sent(5, 16)>>
      [] k = 4 -> << >>
      [] k = 5 -> <<WS, Chunk(6, 4, 11, "kor", "kor"), WS, WS,
                    Chunk(7, 11, 30, "upper", "punct"), WS,
                    Chunk(8, 1, 1, "other", "punct"), WS, Sent(9, 22)>>
      [] k = 6 -> <<Sent(10, 3)>>
      [] k = 7 -> <<Sent(11, 9), WS, Sent(12, 9), WS, Sent(13, 14), WS, Sent(14, 9),
                    WS, Sent(15, 8)>>
      [] OTHER -> <<Sent(16, 2), WS, Sent(17, 25)>>

\* the texts a stage is run on alone
Texts == {InputText(k) : k \in 1..NumTexts}

PipelineText(k) ==
    CASE k = 1 -> <<WS, WS>>
      [] k = 2 -> << >>
      [] k = 3 -> <<Sent(41, 22), WS, Sent(42, 5), WS, Sent(43, 12)>>
      [] k = 4 -> <<Sent(44, 16)>>
      [] OTHER -> <<Sent(45, 9), WS, Sent(46, 12)>>

\* the texts of the requests sent through the whole pipeline
PipelineTexts == {PipelineText(k) : k \in 1..NumPipelineTexts}

\* a sentence whose first word is one of the colloquial markers
Marked(tok) == [tok EXCEPT !.mk = TRUE]

\* texts of sentences of 16 words each, the last of them of ten sentences
StepText(k) ==
    CASE k = 1 -> <<Sent(61, 16)>>
      [] k = 2 -> <<Sent(62, 16), WS, Marked(Sent(63, 16))>>
      [] k = 3 -> <<Sent(64, 16), WS, Marked(Sent(65, 16)), WS, Sent(66, 16), WS,
                    Sent(67, 16)>>
      [] OTHER -> <<Sent(71, 16), WS, Sent(72, 16), WS, Marked(Sent(73, 16)), WS,
                    Sent(74, 16), WS, Sent(75, 16), WS, Sent(76, 16), WS,
                    Sent(77, 16), WS, Sent(78, 16), WS, Sent(79, 16), WS,
                    Sent(80, 16)>>

\* texts that hold connector phrases: one twice, two that are each an
\* alternative of the other, none, and two that are no alternative of any key
ConnectorText(k) ==
    CASE k = 1 -> <<Connector(1), WS, Sent(81, 5), WS, Connector(1), WS, Sent(82, 6)>>
      [] k = 2 -> <<Connector(3), WS, Sent(83, 5), WS, Connector(4), WS, Sent(84, 6)>>
      [] k = 3 -> <<Sent(85, 5), WS, Sent(86, 7)>>
      [] OTHER -> <<Connector(7), WS, Sent(87, 5), WS, Connector(9), WS, Sent(88, 4)>>

ConnectorTexts == {ConnectorText(k) : k \in 1..NumConnectorTexts}

\* the texts a step of a stage is run on
StepTexts == {StepText(k) : k \in 1..NumStepTexts}

\* the answers of the service to a request about one or two sentences
SentenceReply(k) ==
    CASE k = 1 -> PlainReply(<<<<Sent(21, 7)>>>>)
      [] k = 2 -> PlainReply(<<<<WS>>>>)
      [] k = 3 -> PlainReply(<<<<Sent(22, 13), WS, Sent(23, 4)>>>>)
      [] OTHER -> PlainReply(<<<<Sent(24, 9)>>, <<Sent(25, 16)>>>>)

\* the answers of the service to a request about a whole text
TextReply(k) ==
    CASE k = 1 -> PlainReply(<<<<Sent(51, 9), WS,
                                 Chunk(52, 16, 48, "upper", "punct"), WS,
                                 Sent(53, 5), WS, Sent(54, 10)>>>>)
      [] k = 2 -> PlainReply(<< >>)
      [] k = 3 -> PlainReply(<<<<Sent(55, 12), WS, Connector(1), WS, Sent(56, 7)>>>>)
      [] OTHER -> PlainReply(<<<<Sent(57, 6)>>>>)

\* the answers of the service to a split request
SplitReply(k) ==
    CASE k = 1 -> ArrayReply(<<<<Sent(31, 8)>>, <<Sent(32, 9)>>>>)
      [] k = 2 -> ArrayReply(<< >>)
      [] k = 3 -> BrokenReply
      [] k = 4 -> PlainReply(<<<<Sent(33, 10), WS>>, <<WS>>, <<Sent(34, 11)>>>>)
      [] k = 5 -> PlainReply(<< >>)
      [] OTHER -> ArrayReply(<<<<Sent(35, 6)>>, <<Sent(36, 7)>>, <<Sent(37, 8)>>>>)

\* the call raises: the service is unreachable, rate-limited, out of quota
Failure == [fmt |-> "fail", items |-> << >>]

SentenceReplies == {SentenceReply(k) : k \in 1..NumSentenceReplies} \cup {Failure}
TextReplies == {TextReply(k) : k \in 1..NumTextReplies} \cup {Failure}
SplitReplies == {SplitReply(k) : k \in 1..NumSplitReplies} \cup {Failure}

\* intensity: float, ge 0.0, le 1.0, in tenths
Intensities == {0, 3, 4, 5, 6, 7, 10}

\* random.random(), in hundredths
Draws == {0, 10, 20, 35, 65, 99}

\* random.random() where it is compared with 0.5 only
Coins == {20, 65}

Stages == {"structure", "vocabulary", "noise"}

-----------------------------------------------------------------------------
(* The metrics engine: TextMetrics of src/backend/nlp/metrics.py              *)
(*                                                                           *)
(* A string is given to the engine as the list of its words, str.split();    *)
(* a word is a letter sequence id that is or is not written with capitals.   *)
(* A number of the engine is kept exactly: a fraction num/den, the square    *)
(* root of a fraction, or the contrast (std - mean)/(std + mean) of the two; *)
(* round(x, places) turns it into a whole number of 10^-places.  An          *)
(* operation that raises in Python yields an error value.                    *)

ZeroDivisionError == [error |-> "ZeroDivisionError"]
IndexError == [error |-> "IndexError"]
ValueError == [error |-> "ValueError"]
KeyError == [error |-> "KeyError"]

IsError(v) == "error" \in DOMAIN v

RECURSIVE GCD(_, _)
GCD(a, b) == IF b = 0 THEN a ELSE GCD(b, a % b)

Fraction(n, d) ==
    LET g == GCD(IF n < 0 THEN -n ELSE n, d)
    IN  [num |-> n \div g, den |-> d \div g]

Zero == [num |-> 0, den |-> 1]

\* a / b
Quotient(a, b) == IF b = 0 THEN ZeroDivisionError ELSE Fraction(a, b)

\* math.sqrt(q)
sqrt(q) ==
    IF IsError(q) THEN q
    ELSE IF q.num < 0 THEN ValueError
    ELSE [radicand |-> q]

RECURSIVE Power10(_)
Power10(places) == IF places = 0 THEN 1 ELSE 10 * Power10(places - 1)

\* the largest k of lo..hi with k * k <= v, by halving the interval
RECURSIVE Bisect(_, _, _)
Bisect(v, lo, hi) ==
    IF lo = hi THEN lo
    ELSE LET mid == (lo + hi + 1) \div 2
         IN  IF mid * mid <= v THEN Bisect(v, mid, hi) ELSE Bisect(v, lo, mid - 1)

\* the whole part of a square root; 46340 is the largest whole number whose
\* square is a 32-bit integer
Floor_sqrt(v) == Bisect(v, 0, IF v < 46340 THEN v ELSE 46340)

\* the square root of v digit by digit: p is the root so far, rem = what is
\* left of v under it; every step brings one more decimal place
RECURSIVE Digits(_, _, _)
Digits(p, rem, places) ==
    IF places = 0 THEN [root |-> p, exact |-> rem = 0]
    ELSE LET r == 100 * rem
             d == CHOOSE x \in 0..9 :
                      /\ (20 * p + x) * x <= r
                      /\ x < 9 => (20 * p + x + 1) * (x + 1) > r
         IN  Digits(10 * p + d, r - (20 * p + d) * d, places - 1)

\* floor(sqrt(v) * 10^places), and whether the root is exactly that
Root(v, places) ==
    LET whole == Floor_sqrt(v)
    IN  Digits(whole, v - whole * whole, places)

\* n / d to the given number of decimal places by long division: q is the
\* quotient so far, r the remainder
RECURSIVE LongDivision(_, _, _, _)
LongDivision(q, r, d, places) ==
    IF places = 0 THEN [quotient |-> q, remainder |-> r]
    ELSE LongDivision(10 * q + (10 * r) \div d, (10 * r) % d, d, places - 1)

\* the whole number of 10^-places nearest to n / d, a tie going to the even
\* one
RoundRatio(n, d, places) ==
    LET m == IF n < 0 THEN -n ELSE n
        l == LongDivision(m \div d, m % d, d, places)
        k == IF 2 * l.remainder < d THEN l.quotient
             ELSE IF 2 * l.remainder > d THEN l.quotient + 1
             ELSE IF l.quotient % 2 = 0 THEN l.quotient ELSE l.quotient + 1
    IN  IF n < 0 THEN -k ELSE k

\* round(sqrt(q), places) in units of 10^-places
RoundRoot(q, places) ==
    LET r == Root(4 * q.num * q.den, places)
    IN  IF r.exact THEN RoundRatio(r.root, 2 * q.den, 0)
        ELSE (r.root + q.den) \div (2 * q.den)

\* round((s - m) / (s + m), places) for s = sqrt(v.std.radicand) and
\* m = v.mean, the root taken to the same number of places; both terms are
\* multiplied by m.den, and by the denominator that is left under the root
RoundContrast(v, places) ==
    LET a == v.std.radicand
        m == v.mean
        q == Fraction(a.num * m.den * m.den, a.den)
        t == Root(q.num * q.den, places).root
        c == m.num * q.den * Power10(places)
    IN  RoundRatio(t - c, t + c, places)

\* round(v, places) in units of 10^-places
Round(v, places) ==
    IF "radicand" \in DOMAIN v THEN RoundRoot(v.radicand, places)
    ELSE IF "std" \in DOMAIN v THEN RoundContrast(v, places)
    ELSE RoundRatio(v.num, v.den, places)

RECURSIVE Sum(_)
Sum(values) == IF values = << >> THEN 0 ELSE Head(values) + Sum(Tail(values))

\* TextMetrics._mean
mean(values) ==
    IF values = << >> THEN Zero
    ELSE Quotient(Sum(values), Len(values))

\* a variance that divides by n - 1
variance_sample(values) ==
    IF Len(values) < 2 THEN Zero
    ELSE LET m == mean(values)
         IN  IF IsError(m) THEN m
             ELSE Quotient(
                      Sum([j \in DOMAIN values |->
                              (values[j] * m.den - m.num) * (values[j] * m.den - m.num)]),
                      m.den * m.den * (Len(values) - 1))

\* TextMetrics._variance
variance(values) ==
    IF Len(values) < 2 THEN Zero
    ELSE LET m == mean(values)
         IN  IF IsError(m) THEN m
             ELSE Quotient(
                      Sum([j \in DOMAIN values |->
                              (values[j] * m.den - m.num) * (values[j] * m.den - m.num)]),
                      m.den * m.den * Len(values))

\* TextMetrics._std
std(values) == sqrt(variance(values))

\* a word of a text: the letter sequence id, written with capitals or not
Word(k, capital) == [id |-> k, up |-> capital]

\* str.lower() of every word
lower(words) == [j \in DOMAIN words |-> Word(words[j].id, FALSE)]

\* the keys of Counter(words), in the order of their first occurrence
RECURSIVE Keys(_)
Keys(words) ==
    IF words = << >> THEN << >>
    ELSE <<Head(words)>> \o Keys(SelectSeq(Tail(words), LAMBDA w : w # Head(words)))

\* list(Counter(words).values())
Frequencies(words) ==
    LET keys == Keys(words)
    IN  [j \in DOMAIN keys |-> Len(SelectSeq(words, LAMBDA w : w = keys[j]))]

\* (std - mean) / (std + mean)
Contrast(s, m) ==
    IF s.radicand.num = 0 /\ m.num = 0 THEN ZeroDivisionError
    ELSE [std |-> s, mean |-> m]

\* TextMetrics._calculate_burstiness
calculate_burstiness(words) ==
    IF words = << >> THEN Zero
    ELSE LET frequencies == Frequencies(words)
         IN  IF Len(frequencies) < 2 THEN Zero
             ELSE LET m == mean(frequencies)
                      s == std(frequencies)
                  IN  IF IsError(m) THEN m
                      ELSE IF IsError(s) THEN s
                      ELSE IF m.num = 0 /\ s.radicand.num = 0 THEN Zero
                      ELSE Contrast(s, m)

\* a diversity that divides whatever the number of words is
vocabulary_diversity_unguarded(full_text) ==
    LET words == lower(full_text)
    IN  Quotient(Cardinality({words[j] : j \in DOMAIN words}), Len(words))

\* a diversity that tells the spellings of a word apart
vocabulary_diversity_cased(full_text) ==
    IF full_text # << >>
    THEN Quotient(Cardinality({full_text[j] : j \in DOMAIN full_text}), Len(full_text))
    ELSE Zero

\* len(unique_words) / len(words) if words else 0
vocabulary_diversity(full_text) ==
    LET words == lower(full_text)
        unique_words == {words[j] : j \in DOMAIN words}
    IN  IF words # << >> THEN Quotient(Cardinality(unique_words), Len(words))
        ELSE Zero

\* [len(s.split()) for s in sentences]
SentenceLengths(sentence_list) ==
    [j \in DOMAIN sentence_list |-> Len(sentence_list[j])]

\* max(values) - min(values)
Spread(values) ==
    LET hi == CHOOSE x \in {values[j] : j \in DOMAIN values} :
                  \A j \in DOMAIN values : values[j] <= x
        lo == CHOOSE x \in {values[j] : j \in DOMAIN values} :
                  \A j \in DOMAIN values : x <= values[j]
    IN  hi - lo

\* TextMetrics.calculate; avg, std and variance in hundredths, diversity and
\* burstiness in ten-thousandths
calculate(full_text, sentence_list) ==
    LET sentence_lengths == SentenceLengths(sentence_list)
        avg_length == IF sentence_lengths # << >> THEN mean(sentence_lengths) ELSE Zero
        length_std == IF sentence_lengths # << >> THEN std(sentence_lengths)
                      ELSE Zero
        diversity == vocabulary_diversity(full_text)
        burstiness == calculate_burstiness(lower(full_text))
        length_variance == IF sentence_lengths # << >> THEN variance(sentence_lengths)
                           ELSE Zero
    IN  IF IsError(avg_length) THEN avg_length
        ELSE IF IsError(length_std) THEN length_std
        ELSE IF IsError(diversity) THEN diversity
        ELSE IF IsError(burstiness) THEN burstiness
        ELSE IF IsError(length_variance) THEN length_variance
        ELSE [word_count |-> Len(full_text),
              sentence_count |-> Len(sentence_list),
              avg_sentence_length |-> Round(avg_length, 2),
              sentence_length_std |-> Round(length_std, 2),
              sentence_length_variance |-> Round(length_variance, 2),
              sentence_length_range |->
                  IF sentence_lengths # << >> THEN Spread(sentence_lengths) ELSE 0,
              vocabulary_diversity |-> Round(diversity, 4),
              burstiness |-> Round(burstiness, 4),
              sentence_lengths |-> sentence_lengths]

CompareKeys ==
    {"sentence_count", "avg_sentence_length", "sentence_length_std",
     "vocabulary_diversity", "burstiness"}

\* a comparison that takes the snapshots the other way round
compare_reversed(original, transformed) ==
    [sentence_count_change |->
         original.sentence_count - transformed.sentence_count,
     avg_length_change |->
         original.avg_sentence_length - transformed.avg_sentence_length,
     length_std_change |->
         original.sentence_length_std - transformed.sentence_length_std,
     vocabulary_diversity_change |->
         original.vocabulary_diversity - transformed.vocabulary_diversity,
     burstiness_change |-> original.burstiness - transformed.burstiness]

\* TextMetrics.compare
compare(original, transformed) ==
    IF ~(CompareKeys \subseteq DOMAIN original /\ CompareKeys \subseteq DOMAIN transformed)
    THEN KeyError
    ELSE [sentence_count_change |->
              transformed.sentence_count - original.sentence_count,
          avg_length_change |->
              transformed.avg_sentence_length - original.avg_sentence_length,
          length_std_change |->
              transformed.sentence_length_std - original.sentence_length_std,
          vocabulary_diversity_change |->
              transformed.vocabulary_diversity - original.vocabulary_diversity,
          burstiness_change |-> transformed.burstiness - original.burstiness]

\* sorted(values)
RECURSIVE sorted(_)
sorted(values) ==
    IF values = << >> THEN << >>
    ELSE LET rest == sorted(Tail(values))
             below == SelectSeq(rest, LAMBDA x : x <= Head(values))
             above == SelectSeq(rest, LAMBDA x : x > Head(values))
         IN  below \o <<Head(values)>> \o above

\* values[index], the index counted from 0
Item(values, index) ==
    IF index < 0 \/ index >= Len(values) THEN IndexError
    ELSE [value |-> values[index + 1]]

\* an index that is rounded up
PercentileIndexUp(n, percent) == (n * percent + 99) \div 100

\* int(n * 0.25), int(n * 0.50), int(n * 0.75)
PercentileIndex(n, percent) == (n * percent) \div 100

\* TextMetrics.get_percentile_lengths
get_percentile_lengths(sentence_lengths) ==
    IF sentence_lengths = << >> THEN [p25 |-> 0, p50 |-> 0, p75 |-> 0]
    ELSE LET sorted_lengths == sorted(sentence_lengths)
             n == Len(sorted_lengths)
             p25 == Item(sorted_lengths, PercentileIndex(n, 25))
             p50 == Item(sorted_lengths, PercentileIndex(n, 50))
             p75 == IF n > 1 THEN Item(sorted_lengths, PercentileIndex(n, 75))
                    ELSE Item(sorted_lengths, 0)
         IN  IF IsError(p25) \/ IsError(p50) \/ IsError(p75) THEN IndexError
             ELSE [p25 |-> p25.value, p50 |-> p50.value, p75 |-> p75.value]

SuspicionThreshold == 7

\* std / mean
Variation(s, m) ==
    IF m.num = 0 THEN ZeroDivisionError
    ELSE sqrt(Quotient(s.radicand.num * m.den * m.den, s.radicand.den * m.num * m.num))

\* 1 - cv > tenths / 10, for cv >= 0
Exceeds(cv, tenths) ==
    100 * cv.radicand.num < (10 - tenths) * (10 - tenths) * cv.radicand.den

\* TextMetrics.analyze_uniformity; cv and score in ten-thousandths
analyze_uniformity(sentence_lengths) ==
    IF sentence_lengths = << >> \/ Len(sentence_lengths) < 2
    THEN [coefficient_of_variation |-> 0,
          uniformity_score |-> Power10(4),
          is_suspicious |-> FALSE]
    ELSE LET m == mean(sentence_lengths)
             s == std(sentence_lengths)
             cv == IF IsError(m) THEN m
                   ELSE IF IsError(s) THEN s
                   ELSE IF m.num > 0 THEN Variation(s, m) ELSE sqrt(Zero)
         IN  IF IsError(cv) THEN cv
             ELSE [coefficient_of_variation |-> Round(cv, 4),
                   uniformity_score |-> Max(0, Power10(4) - Round(cv, 4)),
                   is_suspicious |-> Exceeds(cv, SuspicionThreshold)]

\* text.split() in the words of the engine: the words of a chunk are its own,
\* the first of them written with a capital when the chunk starts with one
RECURSIVE Words(_)
Words(t) ==
    IF t = << >> THEN << >>
    ELSE [j \in 1..Head(t).nw |-> Word(100 * Head(t).id + j,
                                       j = 1 /\ Head(t).st = "upper")]
             \o Words(Tail(t))

\* text_metrics.calculate(t, korean_nlp.split_sentences(t))
Measure(t) ==
    LET ss == split_sentences(t)
    IN  calculate(Words(t), [j \in DOMAIN ss |-> Words(ss[j])])

-----------------------------------------------------------------------------
(* State *)

VARIABLES
    text,       \* request.text
    opts,       \* the stages request.options enables
    intensity,  \* request.intensity
    apiKey,     \* settings.openai_api_key is set
    client,     \* the module-level _openai_client: "none" or "ready"
    drawers,    \* the requests whose draws the generator of random has served
    served,     \* the requests the process has finished
    pc,         \* the position of the handler
    cur,        \* transformed_text
    applied,    \* applied_transforms
    handed,     \* the text a stage has just been called with
    work,       \* the local text of the running stage
    sentences,  \* the sentence list of the running stage
    i,          \* the cursor of the running loop
    out,        \* transformed_sentences / modified
    swapsLeft,  \* the swaps _partial_reorder still has to try
    swaps,      \* the swaps _partial_reorder has tried
    rounds,     \* the passes the running loop has made
    invoked,    \* the names of the stages called, in call order
    stageKinds, \* the kinds of collaborator call the stage called last has made
    anyCall,    \* the request has called the collaborator
    calls,      \* the calls to the collaborator the request has made
    allUsable,  \* every call so far succeeded and returned usable text
    failed,     \* a call to the collaborator has failed
    last,       \* the decision the structural loop has just taken
    lastVary,   \* the decision the vary-lengths loop has just taken
    lastSplit,  \* the split_sentence call just made: argument, answer, result
    lastPick,   \* what the step just taken has picked: where, and of what list
    result,     \* what the request ended with
    sample,     \* the text and the sentence list handed to the metrics engine
    original_metrics,     \* the snapshot calculate returned first
    transformed_metrics,  \* the snapshot calculate returned second
    report      \* what the metrics function called last returned

vars == <<text, opts, intensity, apiKey, client, drawers, served, pc, cur, applied,
          handed, work, sentences, i, out, swapsLeft, swaps, rounds, invoked,
          stageKinds, anyCall, calls, allUsable, failed, last, lastVary, lastSplit, lastPick, result,
          sample, original_metrics, transformed_metrics, report>>

request == <<text, opts, intensity, apiKey>>
process == <<client, served>>
handler == <<pc, cur, applied, result>>
locals == <<work, sentences, i, out, swapsLeft, swaps, rounds>>
observed == <<stageKinds, anyCall, calls, allUsable, failed>>
engine == <<sample, original_metrics, transformed_metrics, report>>

NoDecision == [w |-> 0, r |-> 0, hasNext |-> FALSE, act |-> "none", at |-> 0]
NoVary == [w |-> 0, chosen |-> FALSE, shorter |-> FALSE, act |-> "none", at |-> 0]
NoSplit == [made |-> FALSE, arg |-> << >>, reply |-> Failure, res |-> << >>]
NoPick == [fn |-> "none"]
Pending == [status |-> "pending"]
NoSample == [words |-> << >>, sentences |-> << >>]
NoMetrics == [status |-> "none"]
NoReport == [fn |-> "none"]

\* the metrics engine has not been called
Unmeasured ==
    /\ sample = NoSample
    /\ original_metrics = NoMetrics
    /\ transformed_metrics = NoMetrics
    /\ report = NoReport

\* the locals of a stage that is not running
Cleared ==
    /\ work' = << >>
    /\ sentences' = << >>
    /\ i' = 0
    /\ out' = << >>
    /\ swapsLeft' = 0
    /\ swaps' = 0
    /\ rounds' = 0

\* the state of a request that has just arrived
Arrived ==
    /\ pc = "validate"
    /\ cur = << >>
    /\ applied = << >>
    /\ handed = << >>
    /\ work = << >>
    /\ sentences = << >>
    /\ i = 0
    /\ out = << >>
    /\ swapsLeft = 0
    /\ swaps = 0
    /\ rounds = 0
    /\ invoked = << >>
    /\ stageKinds = {}
    /\ anyCall = FALSE
    /\ calls = 0
    /\ allUsable = TRUE
    /\ failed = FALSE
    /\ last = NoDecision
    /\ lastVary = NoVary
    /\ lastSplit = NoSplit
    /\ lastPick = NoPick
    /\ result = Pending

\* the process has started: no client yet, the generator freshly seeded
Started ==
    /\ client = "none"
    /\ drawers = {}
    /\ served = 0

\* the process has started and its first request has arrived
Init ==
    /\ text \in PipelineTexts
    /\ opts \in SUBSET Stages
    /\ intensity \in Intensities
    /\ apiKey \in BOOLEAN
    /\ Started
    /\ Arrived
    /\ Unmeasured

-----------------------------------------------------------------------------
(* The request handler: transform_text of main.py *)

MinTextLength == 1
MaxTextLength == 10000

\* except Exception as e: raise HTTPException(status_code=500, detail=str(e))
Raised == [status |-> "error", code |-> 500]

\* n draws are taken from the generator of the random module
Drew(n) == drawers' = IF n > 0 THEN drawers \cup {served} ELSE drawers

\* one call to the rewriting collaborator that was answered by reply
Called(kind, tier, reply, usable) ==
    /\ stageKinds' = stageKinds \cup {[kind |-> kind, tier |-> tier]}
    /\ anyCall' = TRUE
    /\ calls' = calls + 1
    /\ allUsable' = (allUsable /\ reply # Failure /\ usable)
    /\ failed' = (failed \/ reply = Failure)

\* what a step leaves behind of the decisions taken
Noted(decision, vary, split) ==
    /\ last' = decision
    /\ lastVary' = vary
    /\ lastSplit' = split
    /\ lastPick' = NoPick

\* what a step leaves behind of the picks it has made
Picked(pick) ==
    /\ last' = NoDecision
    /\ lastVary' = NoVary
    /\ lastSplit' = NoSplit
    /\ lastPick' = pick

Unnoted == Noted(NoDecision, NoVary, NoSplit)

\* a handler that hands every stage the text of the request
StageArgOriginal == text

\* the text the handler hands to a stage: transformed_text
StageArg == cur

\* a stage is called: Transformer(openai_client, korean_nlp).transform(...)
StageCalled(name) ==
    /\ invoked' = Append(invoked, name)
    /\ handed' = StageArg
    /\ stageKinds' = {}
    /\ UNCHANGED <<anyCall, calls, allUsable, failed>>

\* a later step of the stage that was called
StageRuns ==
    /\ handed' = << >>
    /\ UNCHANGED invoked

\* the stage returns: transformed_text is assigned, the name is appended
StageReturns(name, value, next) ==
    /\ cur' = value
    /\ applied' = Append(applied, name)
    /\ pc' = next
    /\ UNCHANGED result
    /\ Cleared

\* a stage that swallows the exception and lets the handler answer
StageSwallows ==
    /\ pc' = "respond"
    /\ UNCHANGED <<cur, applied, result>>
    /\ Cleared

\* an exception leaves the stage and the handler
StageRaises ==
    /\ pc' = "done"
    /\ result' = Raised
    /\ UNCHANGED <<cur, applied>>
    /\ Cleared

\* the stage goes on to its next step with these locals; a step that stays
\* where it is is one more pass of the loop there
StageGoes(next, w, ss, idx, o) ==
    /\ pc' = next
    /\ rounds' = IF next = pc THEN rounds + 1 ELSE 0
    /\ UNCHANGED <<cur, applied, result>>
    /\ work' = w
    /\ sentences' = ss
    /\ i' = idx
    /\ out' = o

\* a step of the handler outside the stages
HandlerGoes(next) ==
    /\ pc' = next
    /\ handed' = << >>
    /\ Unnoted
    /\ UNCHANGED <<request, engine, served, drawers, applied, locals, invoked, observed>>

\* TransformRequest: text has min_length 1 and max_length 10000
Validate ==
    /\ pc = "validate"
    /\ IF TextLen(text) < MinTextLength \/ TextLen(text) > MaxTextLength
       THEN /\ HandlerGoes("done")
            /\ result' = [status |-> "rejected", code |-> 422]
       ELSE /\ HandlerGoes("begin")
            /\ UNCHANGED result
    /\ UNCHANGED <<client, cur>>

\* get_openai_client, get_korean_nlp, transformed_text = original_text
Begin ==
    /\ pc = "begin"
    /\ IF client = "none" /\ ~apiKey
       THEN /\ HandlerGoes("done")
            /\ result' = Raised
            /\ UNCHANGED <<client, cur>>
       ELSE /\ HandlerGoes("structure")
            /\ client' = "ready"
            /\ cur' = text
            /\ UNCHANGED result

\* a handler that lists a stage it has not called
SkipListed(name, next) ==
    /\ pc = name
    /\ name \notin opts
    /\ pc' = next
    /\ handed' = << >>
    /\ Unnoted
    /\ applied' = Append(applied, name)
    /\ UNCHANGED <<request, engine, served, drawers, locals, invoked, observed, client,
                   cur, result>>

\* if request.options.<stage>: is false
Skip(name, next) ==
    /\ pc = name
    /\ name \notin opts
    /\ HandlerGoes(next)
    /\ UNCHANGED <<client, cur, result>>

-----------------------------------------------------------------------------
(* Stage 1: StructureTransformer.transform *)

SkipStructure == Skip("structure", "vocabulary")

\* sentences = self.nlp.split_sentences(text); the branch on len(sentences) <= 1
StructBegin ==
    /\ pc = "structure"
    /\ "structure" \in opts
    /\ StageCalled("structure")
    /\ LET ss == split_sentences(StageArg)
       IN  IF Len(ss) <= 1
           THEN IF WordCount(StageArg) > SingleSplitWords
                THEN StageGoes("s_long", StageArg, ss, 0, << >>)
                ELSE StageReturns("structure", StageArg, "vocabulary")
           ELSE StageGoes("s_loop", StageArg, ss, 1, << >>)
    /\ swapsLeft' = 0
    /\ swaps' = 0
    /\ Unnoted
    /\ UNCHANGED <<request, engine, process, drawers>>

\* return self._split_long_text(text)
StructSplitLong ==
    /\ pc = "s_long"
    /\ StageRuns
    /\ \E reply \in SplitReplies :
        LET res == split_sentence(work, reply)
        IN  /\ Called("split", "none", reply, UsableSplit(work, reply))
            /\ IF reply = Failure
               THEN /\ StageRaises
                    /\ Unnoted
               ELSE /\ StageReturns("structure", Join(res), "vocabulary")
                    /\ Noted(NoDecision, NoVary,
                             [made |-> TRUE, arg |-> work, reply |-> reply,
                              res |-> res])
    /\ UNCHANGED <<request, engine, process, drawers>>

\* what the loop decides for sentences[i] when random.random() gives r
Decision(r) ==
    LET w == WordCount(sentences[i])
        hasNext == i + 1 <= Len(sentences)
    IN  [w |-> w, r |-> r, hasNext |-> hasNext,
         act |-> performed_action(w, intensity, r, hasNext), at |-> i]

\* the split branch of the loop
StructSplit ==
    /\ pc = "s_loop"
    /\ i <= Len(sentences)
    /\ StageRuns
    /\ \E r \in Draws, reply \in SplitReplies :
        LET d == Decision(r)
            res == split_sentence(sentences[i], reply)
        IN  /\ d.act = "split"
            /\ Called("split", "none", reply, UsableSplit(sentences[i], reply))
            /\ IF reply = Failure
               THEN /\ StageRaises
                    /\ Noted(d, NoVary, NoSplit)
               ELSE /\ StageGoes("s_loop", work, sentences, i + 1, out \o res)
                    /\ UNCHANGED <<swapsLeft, swaps>>
                    /\ Noted(d, NoVary,
                             [made |-> TRUE, arg |-> sentences[i], reply |-> reply,
                              res |-> res])
    /\ Drew(1)
    /\ UNCHANGED <<request, engine, process>>

\* the merge and the paraphrase branch of the loop: one rewrite call each
StructRewrite(act, step) ==
    /\ pc = "s_loop"
    /\ i <= Len(sentences)
    /\ StageRuns
    /\ \E r \in Draws, reply \in SentenceReplies :
        LET d == Decision(r)
        IN  /\ d.act = act
            /\ Noted(d, NoVary, NoSplit)
            /\ Called(act, "none", reply, UsableText(reply))
            /\ IF reply = Failure
               THEN StageRaises
               ELSE /\ StageGoes("s_loop", work, sentences, i + step,
                                 Append(out, transform_text(reply)))
                    /\ UNCHANGED <<swapsLeft, swaps>>
    /\ Drew(1)
    /\ UNCHANGED <<request, engine, process>>

\* merged = self.openai.merge_sentences(sentence, next_sentence); i += 2
StructMerge == StructRewrite("merge", 2)

\* paraphrased = self._paraphrase_structure(sentence); i += 1
StructParaphrase == StructRewrite("paraphrase", 1)

\* the else branch of the loop: transformed_sentences.append(sentence)
StructKeep ==
    /\ pc = "s_loop"
    /\ i <= Len(sentences)
    /\ StageRuns
    /\ \E r \in Draws :
        LET d == Decision(r)
        IN  /\ d.act = "keep"
            /\ Noted(d, NoVary, NoSplit)
    /\ StageGoes("s_loop", work, sentences, i + 1, Append(out, sentences[i]))
    /\ Drew(1)
    /\ UNCHANGED <<request, engine, process, swapsLeft, swaps, observed>>

\* after the loop: if intensity > 0.6 and len(transformed_sentences) > 3
StructLoopEnd ==
    /\ pc = "s_loop"
    /\ i > Len(sentences)
    /\ StageRuns
    /\ IF intensity > ReorderGate /\ Len(out) > ReorderMinSentences
       THEN /\ StageGoes("s_reorder", work, sentences, i, out)
            /\ swapsLeft' = num_swaps(Len(out) - 2, intensity)
            /\ UNCHANGED swaps
       ELSE StageReturns("structure", Join(out), "vocabulary")
    /\ Unnoted
    /\ UNCHANGED <<request, engine, process, drawers, observed>>

\* one pass of the loop of _partial_reorder: two random.randint calls
StructSwap ==
    /\ pc = "s_reorder"
    /\ swapsLeft > 0
    /\ StageRuns
    /\ IF Len(out) - 2 >= 2
       THEN /\ \E idx1, idx2 \in 0..(Len(out) - 3) :
                 StageGoes("s_reorder", work, sentences, i,
                           IF idx1 # idx2 THEN SwapMiddle(out, idx1, idx2) ELSE out)
            /\ Drew(2)
       ELSE /\ StageGoes("s_reorder", work, sentences, i, out)
            /\ Drew(0)
    /\ swapsLeft' = swapsLeft - 1
    /\ swaps' = swaps + 1
    /\ Unnoted
    /\ UNCHANGED <<request, engine, process, observed>>

\* return " ".join(transformed_sentences), after the reorder
StructReorderEnd ==
    /\ pc = "s_reorder"
    /\ swapsLeft = 0
    /\ StageRuns
    /\ StageReturns("structure", Join(out), "vocabulary")
    /\ Unnoted
    /\ UNCHANGED <<request, engine, process, drawers, observed>>

-----------------------------------------------------------------------------
(* Stage 2: VocabularyTransformer.transform *)

SynonymGate == 3
FormalityGate == 5
ColloquialGate == 6
TierLowBelow == 5
TierMediumBelow == 7
ColloquialShare == 3
ColloquialMinSentences == 2

\* connector in result
Present(t, c) == \E j \in 1..Len(t) : t[j].cn = c

\* the place of the first occurrence of the key c in the text t
FirstAt(t, c) ==
    CHOOSE x \in 1..Len(t) : t[x].cn = c /\ \A y \in 1..(x - 1) : t[y].cn # c

\* result.replace(connector, replacement, 1)
ReplaceFirst(t, c, replacement) == [t EXCEPT ![FirstAt(t, c)] = replacement]

\* VocabularyTransformer._vary_connectors from the key c on: every text the
\* loop can end with, the number of draws it took and the substitutions it
\* made (the key, the place, the alternative), in their order
RECURSIVE VaryFrom(_, _, _, _, _)
VaryFrom(t, c, tenths, n, subs) ==
    IF c > NumConnectors THEN {[txt |-> t, draws |-> n, subs |-> subs]}
    ELSE IF ~Present(t, c) THEN VaryFrom(t, c + 1, tenths, n, subs)
    ELSE UNION {
             IF r < 10 * tenths
             THEN UNION { VaryFrom(ReplaceFirst(t, c, Alternative(c, a)), c + 1,
                                   tenths, n + 2,
                                   Append(subs, [key |-> c, at |-> FirstAt(t, c),
                                                 alt |-> a])) :
                          a \in 1..Min(NumAlternatives(c), MaxChoice) }
             ELSE VaryFrom(t, c + 1, tenths, n + 1, subs) : r \in Draws }

vary_connectors(t, tenths) == VaryFrom(t, 1, tenths, 0, << >>)

\* what the connector pass leaves behind
Varied(before, subs, after) ==
    [fn |-> "connectors", before |-> before, subs |-> subs, after |-> after]

\* tiers whose upper ends belong to them
SynonymTierInclusive(tenths) ==
    IF tenths <= TierLowBelow THEN "low"
    ELSE IF tenths <= TierMediumBelow THEN "medium"
    ELSE "high"

\* the tier _apply_synonyms picks
SynonymTier(tenths) ==
    IF tenths < TierLowBelow THEN "low"
    ELSE IF tenths < TierMediumBelow THEN "medium"
    ELSE "high"

\* the step of transform that follows the step named after
VocabAfter(after) ==
    IF after = "connectors" /\ intensity > SynonymGate THEN "v_synonyms"
    ELSE IF after \in {"connectors", "synonyms"} /\ intensity > FormalityGate
         THEN "v_formality"
    ELSE IF after \in {"connectors", "synonyms", "formality"}
            /\ intensity > ColloquialGate THEN "v_colloquial"
    ELSE "return"

\* the stage goes on with the text value, or returns it
VocabGoes(after, value) ==
    IF VocabAfter(after) = "return"
    THEN StageReturns("vocabulary", value, "noise")
    ELSE /\ StageGoes(VocabAfter(after), value, << >>, 0, << >>)
         /\ UNCHANGED <<swapsLeft, swaps>>

SkipVocabulary == Skip("vocabulary", "noise")

\* Step 1: text = self._vary_connectors(text, intensity)
VocabBegin ==
    /\ pc = "vocabulary"
    /\ "vocabulary" \in opts
    /\ StageCalled("vocabulary")
    /\ \E v \in vary_connectors(StageArg, intensity) :
        /\ VocabGoes("connectors", v.txt)
        /\ Picked(Varied(StageArg, v.subs, v.txt))
        /\ Drew(v.draws)
    /\ UNCHANGED <<request, engine, process>>

\* one whole-text rewrite call of the stage
VocabRewrite(at, kind, tier) ==
    /\ pc = at
    /\ StageRuns
    /\ \E reply \in TextReplies :
        /\ Called(kind, tier, reply, UsableText(reply))
        /\ IF reply = Failure
           THEN StageRaises
           ELSE VocabGoes(kind, transform_text(reply))
    /\ Unnoted
    /\ UNCHANGED <<request, engine, process, drawers>>

\* Step 2: text = self._apply_synonyms(text, intensity)
VocabSynonyms == VocabRewrite("v_synonyms", "synonyms", SynonymTier(intensity))

\* Step 3: text = self._mix_formality(text)
VocabFormality == VocabRewrite("v_formality", "formality", "none")

\* a sample size that follows the sentence count alone
colloquial_count_whole(n, tenths) == Max(1, (n * tenths) \div 10)

\* num_insertions and the sample size of _add_colloquial_touches
colloquial_count(n, tenths) ==
    Min(Max(1, (n * tenths * ColloquialShare) \div 100), n - 1)

\* random.sample(population, k) raises ValueError
SampleRaises(k, population) == k < 0 \/ k > population

\* a sample that may hold a member of the population more than once
random_choices(population, k) == [1..k -> population]

\* random.sample(population, k): the lists of k members at distinct places of
\* the population, a range here
random_sample(population, k) ==
    {q \in [1..k -> population] : \A a, b \in 1..k : a # b => q[a] # q[b]}

\* a body that puts a marker in front of every sentence
InsertMarkerAlways(sentence, m) == <<ColloquialToken(m), WS>> \o LowerFirst(sentence)

\* the body of the loop over positions
InsertMarker(sentence, m) ==
    IF StartsWithMarker(sentence) \/ sentence = << >> THEN sentence
    ELSE <<ColloquialToken(m), WS>> \o LowerFirst(sentence)

\* for pos in positions: the list ss after the loop, the marker m[j] being
\* chosen at the j-th position; a position of the code is an index from 0
RECURSIVE InsertMarkers(_, _, _)
InsertMarkers(ss, positions, m) ==
    IF positions = << >> THEN ss
    ELSE InsertMarkers([ss EXCEPT ![Head(positions) + 1] = InsertMarker(@, Head(m))],
                       Tail(positions), Tail(m))

\* what a step that picks positions of a sentence list leaves behind
Pick(name, before, positions, after) ==
    [fn |-> name, before |-> before, positions |-> positions, after |-> after]

\* Step 4: text = self._add_colloquial_touches(text, intensity)
VocabColloquial ==
    /\ pc = "v_colloquial"
    /\ StageRuns
    /\ LET ss == split_sentences(work)
           n == Len(ss)
           k == colloquial_count(n, intensity)
       IN  IF n < ColloquialMinSentences
           THEN /\ StageReturns("vocabulary", work, "noise")
                /\ Picked(Pick("colloquial", ss, << >>, ss))
                /\ Drew(0)
           ELSE IF SampleRaises(k, n - 1)
           THEN /\ StageRaises
                /\ Unnoted
                /\ Drew(0)
           ELSE \E positions \in random_sample(1..(n - 1), k) :
                \E m \in [1..k -> 1..Min(NumColloquial, MaxChoice)] :
                    LET done == InsertMarkers(ss, positions, m)
                    IN  /\ StageReturns("vocabulary", Join(done), "noise")
                        /\ Picked(Pick("colloquial", ss, positions, done))
                        /\ Drew(2 * k)
    /\ UNCHANGED <<request, engine, process, observed>>

-----------------------------------------------------------------------------
(* Stage 3: NoiseInjector.transform *)

VaryMinSentences == 3
ShortenMinWords == 8
LengthenMaxWords == 15
HalfChance == 50
TransitionGate == 4
TransitionShare == 2
TransitionMinSentences == 2
UnpredictabilityGate == 5
FlowGate == 6
FlowMinSentences == 4

\* what _vary_sentence_lengths does with a sentence of word_count words that
\* is chosen or not, for the shorter or the longer side
vary_action(word_count, chosen, shorter) ==
    IF chosen
    THEN IF shorter /\ word_count > ShortenMinWords THEN "shorten"
         ELSE IF word_count < LengthenMaxWords THEN "lengthen"
         ELSE "leave"
    ELSE "leave"

\* the step of transform that follows the step named after
NoiseAfter(after) ==
    IF after = "vary" /\ intensity > TransitionGate THEN "n_transitions"
    ELSE IF after \in {"vary", "transitions"} /\ intensity > UnpredictabilityGate
         THEN "n_unpredictability"
    ELSE IF after \in {"vary", "transitions", "unpredictability"}
            /\ intensity > FlowGate THEN "n_flow"
    ELSE "return"

\* the stage goes on with the text value, or returns it
NoiseGoes(after, value) ==
    IF NoiseAfter(after) = "return"
    THEN StageReturns("noise", value, "respond")
    ELSE /\ StageGoes(NoiseAfter(after), value, << >>, 0, << >>)
         /\ UNCHANGED <<swapsLeft, swaps>>

SkipNoise == Skip("noise", "respond")

\* Step 1 begins: sentences = self.nlp.split_sentences(text)
NoiseBegin ==
    /\ pc = "noise"
    /\ "noise" \in opts
    /\ StageCalled("noise")
    /\ LET ss == split_sentences(StageArg)
       IN  IF Len(ss) < VaryMinSentences
           THEN NoiseGoes("vary", StageArg)
           ELSE /\ StageGoes("n_vary", StageArg, ss, 1, << >>)
                /\ UNCHANGED <<swapsLeft, swaps>>
    /\ Unnoted
    /\ UNCHANGED <<request, engine, process, drawers>>

\* what the loop decides for sentences[i]: random.random() < intensity gives
\* r, random.random() < 0.5 gives coin
VaryDecision(r, coin) ==
    LET w == WordCount(sentences[i])
        chosen == r < 10 * intensity
        shorter == chosen /\ coin < HalfChance
    IN  [w |-> w, chosen |-> chosen, shorter |-> shorter,
         act |-> vary_action(w, chosen, shorter), at |-> i]

\* the sentence is sent to _shorten_sentence or to _lengthen_sentence
NoiseRewrite(act) ==
    /\ pc = "n_vary"
    /\ i <= Len(sentences)
    /\ StageRuns
    /\ \E r \in Draws, coin \in Coins, reply \in SentenceReplies :
        LET d == VaryDecision(r, coin)
        IN  /\ d.act = act
            /\ Noted(NoDecision, d, NoSplit)
            /\ Called(act, "none", reply, UsableText(reply))
            /\ IF reply = Failure
               THEN StageRaises
               ELSE /\ StageGoes("n_vary", work, sentences, i + 1,
                                 Append(out, transform_text(reply)))
                    /\ UNCHANGED <<swapsLeft, swaps>>
    /\ Drew(2)
    /\ UNCHANGED <<request, engine, process>>

NoiseShorten == NoiseRewrite("shorten")

NoiseLengthen == NoiseRewrite("lengthen")

\* modified.append(sentence)
NoiseLeave ==
    /\ pc = "n_vary"
    /\ i <= Len(sentences)
    /\ StageRuns
    /\ \E r \in Draws, coin \in Coins :
        LET d == VaryDecision(r, coin)
        IN  /\ d.act = "leave"
            /\ Noted(NoDecision, d, NoSplit)
            /\ Drew(IF d.chosen THEN 2 ELSE 1)
    /\ StageGoes("n_vary", work, sentences, i + 1, Append(out, sentences[i]))
    /\ UNCHANGED <<request, engine, process, swapsLeft, swaps, observed>>

\* return " ".join(modified)
NoiseVaryEnd ==
    /\ pc = "n_vary"
    /\ i > Len(sentences)
    /\ StageRuns
    /\ NoiseGoes("vary", Join(out))
    /\ Unnoted
    /\ UNCHANGED <<request, engine, process, drawers, observed>>

\* num_insertions and the sample size of _add_unexpected_elements
transition_count(n, tenths) ==
    Min(Max(1, (n * tenths * TransitionShare) \div 100), n - 2)

\* f"{transition}, {sentences[pos][0].lower()}{sentences[pos][1:]}"
InsertTransition(sentence, m) == <<TransitionToken(m), WS>> \o LowerFirst(sentence)

\* the positions in the order they were sampled in
as_sampled(positions) == positions

\* sorted(positions, reverse=True)
RECURSIVE sorted_reverse(_)
sorted_reverse(positions) ==
    IF positions = << >> THEN << >>
    ELSE LET highest == CHOOSE x \in {positions[a] : a \in DOMAIN positions} :
                            \A a \in DOMAIN positions : positions[a] <= x
         IN  <<highest>> \o sorted_reverse(SelectSeq(positions, LAMBDA x : x # highest))

\* for pos in sorted(positions, reverse=True): the list ss after the loop, the
\* transition m[j] being chosen at the j-th position; a position of the code
\* is an index from 0
RECURSIVE InsertTransitions(_, _, _)
InsertTransitions(ss, positions, m) ==
    IF positions = << >> THEN ss
    ELSE InsertTransitions(
             [ss EXCEPT ![Head(positions) + 1] = InsertTransition(@, Head(m))],
             Tail(positions), Tail(m))

\* Step 2: text = self._add_unexpected_elements(text, intensity)
NoiseTransitions ==
    /\ pc = "n_transitions"
    /\ StageRuns
    /\ LET ss == split_sentences(work)
           n == Len(ss)
           k == transition_count(n, intensity)
       IN  IF n < TransitionMinSentences
           THEN /\ NoiseGoes("transitions", work)
                /\ Picked(Pick("transitions", ss, << >>, ss))
                /\ Drew(0)
           ELSE IF n <= 2
           THEN /\ NoiseGoes("transitions", Join(ss))
                /\ Picked(Pick("transitions", ss, << >>, ss))
                /\ Drew(0)
           ELSE IF SampleRaises(k, n - 2) \/ \E j \in 2..(n - 1) : ss[j] = << >>
           THEN /\ StageRaises
                /\ Unnoted
                /\ Drew(0)
           ELSE \E positions \in random_sample(1..(n - 2), k) :
                \E m \in [1..k -> 1..Min(NumTransitions, MaxChoice)] :
                    LET order == sorted_reverse(positions)
                        done == InsertTransitions(ss, order, m)
                    IN  /\ NoiseGoes("transitions", Join(done))
                        /\ Picked(Pick("transitions", ss, order, done))
                        /\ Drew(2 * k)
    /\ UNCHANGED <<request, engine, process, observed>>

\* Step 3: text = self._increase_unpredictability(text)
NoiseUnpredictability ==
    /\ pc = "n_unpredictability"
    /\ StageRuns
    /\ \E reply \in TextReplies :
        /\ Called("unpredictability", "none", reply, UsableText(reply))
        /\ IF reply = Failure
           THEN StageRaises
           ELSE NoiseGoes("unpredictability", transform_text(reply))
    /\ Unnoted
    /\ UNCHANGED <<request, engine, process, drawers>>

\* a draw of a position that can give the last sentence
randint_to_last(n) == 1..(n - 1)

\* random.randint(1, len(sentences) - 2): a position of the code is an index
\* from 0
randint(n) == 1..(n - 2)

\* Step 4: text = self._add_nonlinear_flow(text)
NoiseFlow ==
    /\ pc = "n_flow"
    /\ StageRuns
    /\ LET ss == split_sentences(work)
           n == Len(ss)
       IN  IF n < FlowMinSentences
           THEN /\ NoiseGoes("flow", work)
                /\ Picked(Pick("flow", ss, << >>, ss))
                /\ Drew(0)
           ELSE \E r \in Coins :
                IF r < HalfChance
                THEN \E insert_pos \in randint(n),
                        m \in 1..Min(NumParentheticals, MaxChoice) :
                         LET done == [ss EXCEPT ![insert_pos + 1] =
                                         @ \o <<WS, ParentheticalToken(m)>>]
                         IN  /\ NoiseGoes("flow", Join(done))
                             /\ Picked(Pick("flow", ss, <<insert_pos>>, done))
                             /\ Drew(3)
                ELSE /\ NoiseGoes("flow", Join(ss))
                     /\ Picked(Pick("flow", ss, << >>, ss))
                     /\ Drew(1)
    /\ UNCHANGED <<request, engine, process, observed>>

-----------------------------------------------------------------------------
(* The response *)

\* the metrics of both texts, MetricsResult, TransformResponse; the metrics of
\* the request text, which no stage changes, are taken here as well
Respond ==
    /\ pc = "respond"
    /\ HandlerGoes("done")
    /\ LET before == Measure(text)
           after == Measure(cur)
       IN  result' =
               IF IsError(before) \/ IsError(after) THEN Raised
               ELSE [status |-> "ok",
                     original |-> text,
                     transformed |-> cur,
                     applied_transforms |-> applied,
                     original_sentence_count |-> Len(split_sentences(text)),
                     transformed_sentence_count |-> Len(split_sentences(cur)),
                     original_avg_length |-> before.avg_sentence_length,
                     transformed_avg_length |-> after.avg_sentence_length,
                     original_length_std |-> before.sentence_length_std,
                     transformed_length_std |-> after.sentence_length_std,
                     vocabulary_diversity_change |->
                         after.vocabulary_diversity - before.vocabulary_diversity]
    /\ UNCHANGED <<client, cur>>

\* the steps of the structural stage
NextStructure ==
    \/ StructBegin
    \/ StructSplitLong
    \/ StructSplit
    \/ StructMerge
    \/ StructParaphrase
    \/ StructKeep
    \/ StructLoopEnd
    \/ StructSwap
    \/ StructReorderEnd

\* the steps of the vocabulary stage
NextVocabulary ==
    \/ VocabBegin
    \/ VocabSynonyms
    \/ VocabFormality
    \/ VocabColloquial

\* the steps of the noise stage
NextNoise ==
    \/ NoiseBegin
    \/ NoiseShorten
    \/ NoiseLengthen
    \/ NoiseLeave
    \/ NoiseVaryEnd
    \/ NoiseTransitions
    \/ NoiseUnpredictability
    \/ NoiseFlow

\* one request through the handler
Next ==
    \/ Validate
    \/ Begin
    \/ SkipStructure
    \/ NextStructure
    \/ SkipVocabulary
    \/ NextVocabulary
    \/ SkipNoise
    \/ NextNoise
    \/ Respond

Spec == Init /\ [][Next]_vars

-----------------------------------------------------------------------------
(* A stage called on its own text, as cli.py and the handler call it *)

\* the handler is about to call the stage name, alone enabled, on a text
\* of the set texts
StageOn(name, texts) ==
    /\ text \in texts
    /\ opts = {name}
    /\ intensity \in Intensities
    /\ apiKey = TRUE
    /\ client = "ready"
    /\ drawers = {}
    /\ served = 0
    /\ pc = name
    /\ cur = text
    /\ applied = << >>
    /\ handed = << >>
    /\ work = << >>
    /\ sentences = << >>
    /\ i = 0
    /\ out = << >>
    /\ swapsLeft = 0
    /\ swaps = 0
    /\ rounds = 0
    /\ invoked = << >>
    /\ stageKinds = {}
    /\ anyCall = FALSE
    /\ calls = 0
    /\ allUsable = TRUE
    /\ failed = FALSE
    /\ last = NoDecision
    /\ lastVary = NoVary
    /\ lastSplit = NoSplit
    /\ lastPick = NoPick
    /\ result = Pending
    /\ Unmeasured

StageAlone(name) == StageOn(name, Texts)

InitStructure == StageAlone("structure")

SpecStructure == InitStructure /\ [][NextStructure]_vars

\* the loop goes on as long as it has a pass to make, and ends when it has
\* none: its code is sequential, and a call to the collaborator returns or
\* raises
SpecStructureFair ==
    /\ SpecStructure
    /\ WF_vars(StructSplit)
    /\ WF_vars(StructMerge)
    /\ WF_vars(StructParaphrase)
    /\ WF_vars(StructKeep)
    /\ WF_vars(StructLoopEnd)

InitVocabulary == StageAlone("vocabulary")

SpecVocabulary == InitVocabulary /\ [][NextVocabulary]_vars

\* the vocabulary stage on texts that hold connector phrases
InitConnectors == StageOn("vocabulary", ConnectorTexts)

SpecConnectors == InitConnectors /\ [][NextVocabulary]_vars

InitNoise == StageAlone("noise")

SpecNoise == InitNoise /\ [][NextNoise]_vars

-----------------------------------------------------------------------------
(* A step of a stage on its own text *)

\* the stage name, alone enabled, is under way at position on the text of the
\* request, which the steps before have left as it was
Underway(name, position) ==
    /\ text \in StepTexts
    /\ opts = {name}
    /\ apiKey = TRUE
    /\ client = "ready"
    /\ served = 0
    /\ pc = position
    /\ cur = text
    /\ applied = << >>
    /\ handed = << >>
    /\ work = text
    /\ swapsLeft = 0
    /\ swaps = 0
    /\ invoked = <<name>>
    /\ allUsable = TRUE
    /\ failed = FALSE
    /\ last = NoDecision
    /\ lastSplit = NoSplit
    /\ lastPick = NoPick
    /\ result = Pending
    /\ Unmeasured

\* the vocabulary stage is about to add its colloquial touches: no connector
\* was there to vary, and the synonym and the formality call have each
\* returned the text they were sent
InitColloquial ==
    /\ Underway("vocabulary", "v_colloquial")
    /\ intensity \in {t \in Intensities : t > ColloquialGate}
    /\ drawers = {}
    /\ lastVary = NoVary
    /\ sentences = << >>
    /\ i = 0
    /\ out = << >>
    /\ rounds = 0
    /\ stageKinds = {[kind |-> "synonyms", tier |-> SynonymTier(intensity)],
                     [kind |-> "formality", tier |-> "none"]}
    /\ anyCall = TRUE
    /\ calls = 2

NextColloquial == VocabColloquial

SpecColloquial == InitColloquial /\ [][NextColloquial]_vars

\* the decisions of the vary-lengths loop that leave a sentence as it is
Leaving(sentence, at) ==
    {d \in {[w |-> WordCount(sentence),
             chosen |-> r < 10 * intensity,
             shorter |-> r < 10 * intensity /\ coin < HalfChance,
             act |-> vary_action(WordCount(sentence), r < 10 * intensity,
                                 r < 10 * intensity /\ coin < HalfChance),
             at |-> at] : r \in Draws, coin \in Coins} :
        d.act = "leave"}

\* the noise stage is about to be called on a text of fewer than 3 sentences,
\* or its vary-lengths loop has left every one of 3 sentences or more as it
\* was
InitNoiseSteps ==
    \/ StageOn("noise", {t \in StepTexts : Len(split_sentences(t)) < VaryMinSentences})
    \/ /\ Underway("noise", "n_vary")
       /\ Len(split_sentences(text)) >= VaryMinSentences
       /\ intensity \in Intensities
       /\ drawers = {served}
       /\ sentences = split_sentences(text)
       /\ i = Len(sentences) + 1
       /\ out = sentences
       /\ rounds = Len(sentences)
       /\ stageKinds = {}
       /\ anyCall = FALSE
       /\ calls = 0
       /\ lastVary \in Leaving(sentences[Len(sentences)], Len(sentences))

\* the steps of the noise stage that follow its vary-lengths loop
NextNoiseSteps ==
    \/ NoiseBegin
    \/ NoiseVaryEnd
    \/ NoiseTransitions
    \/ NoiseUnpredictability
    \/ NoiseFlow

SpecNoiseSteps == InitNoiseSteps /\ [][NextNoiseSteps]_vars

-----------------------------------------------------------------------------
(* The process serves one request after the other *)

\* the handler is async and awaits nothing: the next request starts when the
\* one before it has ended; the module-level state stays as it is
NextRequest ==
    /\ pc = "done"
    /\ served + 1 < MaxRequests
    /\ served' = served + 1
    /\ text' \in PipelineTexts
    /\ opts' \in SUBSET Stages
    /\ intensity' \in Intensities
    /\ pc' = "validate"
    /\ cur' = << >>
    /\ applied' = << >>
    /\ invoked' = << >>
    /\ result' = Pending
    /\ handed' = << >>
    /\ Cleared
    /\ Unnoted
    /\ stageKinds' = {}
    /\ anyCall' = FALSE
    /\ calls' = 0
    /\ allUsable' = TRUE
    /\ failed' = FALSE
    /\ UNCHANGED <<apiKey, client, drawers, engine>>

NextShared ==
    \/ Next
    \/ NextRequest

SpecShared == Init /\ [][NextShared]_vars

-----------------------------------------------------------------------------
(* The metrics engine called on its own *)

MaxWords == 3
MaxSentences == 3

\* the sequences over the set S of length n at most
RECURSIVE SeqsUpTo(_, _)
SeqsUpTo(S, n) ==
    IF n = 0 THEN {<< >>}
    ELSE LET shorter == SeqsUpTo(S, n - 1)
         IN  shorter \cup {Append(q, x) : q \in {p \in shorter : Len(p) = n - 1}, x \in S}

\* the words of the texts measured: one word in two spellings and another word
Vocabulary == {Word(1, FALSE), Word(1, TRUE), Word(2, FALSE)}

WordLists == SeqsUpTo(Vocabulary, MaxWords)

\* a sentence of n words
Phrase(n) == [j \in 1..n |-> Word(j, FALSE)]

Phrases(lengths) == [j \in DOMAIN lengths |-> Phrase(lengths[j])]

\* the sentence lists measured, an empty sentence among them
SentenceLists ==
    {Phrases(l) : l \in SeqsUpTo({0, 1, 4, 5}, MaxSentences)}
        \cup {Phrases(<<5, 3, 1, 4, 2>>), Phrases(<<1, 2, 3, 4, 5>>),
              Phrases(<<2, 1, 4, 3>>)}

Samples == [words : WordLists, sentences : SentenceLists]

\* the texts measured after a transformation
AfterSamples ==
    [words : SeqsUpTo(Vocabulary, 1),
     sentences : {Phrases(<< >>), Phrases(<<1>>), Phrases(<<4, 5>>), Phrases(<<0, 5, 1>>)}]

Answer(name, v) == [fn |-> name, value |-> v]

\* text_metrics.calculate(original_text, original_sentences)
Calculate ==
    /\ pc = "metrics"
    /\ LET m == calculate(sample.words, sample.sentences)
       IN  /\ report' = Answer("calculate", m)
           /\ IF IsError(m)
              THEN pc' = "raised" /\ UNCHANGED original_metrics
              ELSE pc' = "calculated" /\ original_metrics' = m
    /\ UNCHANGED <<request, process, drawers, cur, applied, result, handed, locals,
                   invoked, observed, last, lastVary, lastSplit, lastPick,
                   sample, transformed_metrics>>

\* text_metrics.calculate(transformed_text, transformed_sentences)
Recalculate ==
    /\ pc = "calculated"
    /\ \E s \in AfterSamples :
           LET m == calculate(s.words, s.sentences)
           IN  /\ sample' = s
               /\ report' = Answer("calculate", m)
               /\ IF IsError(m)
                  THEN pc' = "raised" /\ UNCHANGED transformed_metrics
                  ELSE pc' = "recalculated" /\ transformed_metrics' = m
    /\ UNCHANGED <<request, process, drawers, cur, applied, result, handed, locals,
                   invoked, observed, last, lastVary, lastSplit, lastPick,
                   original_metrics>>

\* text_metrics.compare(original_metrics, transformed_metrics)
Compare ==
    /\ pc = "recalculated"
    /\ LET d == compare(original_metrics, transformed_metrics)
       IN  /\ report' = Answer("compare", d)
           /\ pc' = IF IsError(d) THEN "raised" ELSE "done"
    /\ UNCHANGED <<request, process, drawers, cur, applied, result, handed, locals,
                   invoked, observed, last, lastVary, lastSplit, lastPick,
                   sample, original_metrics, transformed_metrics>>

\* text_metrics.get_percentile_lengths(sentence_lengths)
Percentiles ==
    /\ pc = "metrics"
    /\ LET p == get_percentile_lengths(SentenceLengths(sample.sentences))
       IN  /\ report' = Answer("get_percentile_lengths", p)
           /\ pc' = IF IsError(p) THEN "raised" ELSE "done"
    /\ UNCHANGED <<request, process, drawers, cur, applied, result, handed, locals,
                   invoked, observed, last, lastVary, lastSplit, lastPick,
                   sample, original_metrics, transformed_metrics>>

\* text_metrics.analyze_uniformity(sentence_lengths)
Uniformity ==
    /\ pc = "metrics"
    /\ LET u == analyze_uniformity(SentenceLengths(sample.sentences))
       IN  /\ report' = Answer("analyze_uniformity", u)
           /\ pc' = IF IsError(u) THEN "raised" ELSE "done"
    /\ UNCHANGED <<request, process, drawers, cur, applied, result, handed, locals,
                   invoked, observed, last, lastVary, lastSplit, lastPick,
                   sample, original_metrics, transformed_metrics>>

NextMetrics ==
    \/ Calculate
    \/ Recalculate
    \/ Compare
    \/ Percentiles
    \/ Uniformity

\* an engine of its own, no request being served
InitMetrics ==
    /\ text = << >>
    /\ opts = {}
    /\ intensity = 0
    /\ apiKey = FALSE
    /\ Started
    /\ pc = "metrics"
    /\ cur = << >>
    /\ applied = << >>
    /\ handed = << >>
    /\ work = << >>
    /\ sentences = << >>
    /\ i = 0
    /\ out = << >>
    /\ swapsLeft = 0
    /\ swaps = 0
    /\ rounds = 0
    /\ invoked = << >>
    /\ stageKinds = {}
    /\ anyCall = FALSE
    /\ calls = 0
    /\ allUsable = TRUE
    /\ failed = FALSE
    /\ last = NoDecision
    /\ lastVary = NoVary
    /\ lastSplit = NoSplit
    /\ lastPick = NoPick
    /\ result = Pending
    /\ sample \in Samples
    /\ original_metrics = NoMetrics
    /\ transformed_metrics = NoMetrics
    /\ report = NoReport

SpecMetrics == InitMetrics /\ [][NextMetrics]_vars

-----------------------------------------------------------------------------
(* Properties of the handler *)

StageOrder == <<"structure", "vocabulary", "noise">>

\* the enabled stages, in the order of the handler
EnabledInOrder == SelectSeq(StageOrder, LAMBDA s : s \in opts)

IsPrefix(p, q) == Len(p) <= Len(q) /\ p = SubSeq(q, 1, Len(p))

C1_Called ==
    /\ IsPrefix(invoked, EnabledInOrder)
    /\ IsPrefix(applied, invoked)
    /\ Len(invoked) <= Len(applied) + 1
    /\ result.status = "ok" =>
           /\ invoked = EnabledInOrder
           /\ result.applied_transforms = EnabledInOrder

C1_Handed ==
    /\ invoked' # invoked =>
           /\ handed' = cur
           /\ invoked = << >> => handed' = text
    /\ cur' # cur => (pc = "begin" \/ Len(applied') = Len(applied) + 1)

\* C1: the stages are called in the order structure, vocabulary, noise; a
\* disabled stage is never called; each called stage is handed the text the
\* stage called before it returned, the first one the text of the request;
\* the applied list of an answer names exactly the enabled stages, in order.
C1_StageOrder == []C1_Called /\ [][C1_Handed]_vars

\* all three stages ran, one after the other, and the text changed on the way
C1_Witness ==
    /\ result.status = "ok"
    /\ result.applied_transforms = StageOrder
    /\ result.transformed # text

\* C2: once a call to the collaborator has failed, the request has ended with
\* the one error result, which holds no text, no metrics and no applied list,
\* and the stage that made the call is the last one that was called.
C2_FailureAborts ==
    failed =>
        /\ pc = "done"
        /\ result = Raised
        /\ DOMAIN result = {"status", "code"}
        /\ Len(invoked) = Len(applied) + 1

\* a call of the second stage failed after the first stage had returned
C2_Witness ==
    /\ failed
    /\ applied = <<"structure">>
    /\ invoked = <<"structure", "vocabulary">>

\* the rule of the structural loop as it is stated: the merge rule asks for a
\* next sentence, and a sentence that fails it goes on to the paraphrase rule
StatedAction(w, tenths, r, hasNext) ==
    IF w > 20 /\ r < 3 * tenths THEN "split"
    ELSE IF w < 10 /\ r < 5 * tenths /\ hasNext THEN "merge"
    ELSE IF r < 8 * tenths THEN "paraphrase"
    ELSE "keep"

\* C3: in the structural loop every visited sentence gets the action of the
\* first matching rule of split, merge (with a next sentence), paraphrase,
\* keep; a short last sentence is paraphrased when r < 0.8 t.
C3_FirstMatchingRule ==
    last.act # "none" =>
        last.act = StatedAction(last.w, intensity, last.r, last.hasNext)

\* C4: when a split call returns no item, the sentence that was sent is kept
\* in the output of the structural stage.
C4_EmptySplitKeeps ==
    (lastSplit.made /\ lastSplit.res = << >>) =>
        IF pc = "s_loop"
        THEN Len(out) >= 1 /\ out[Len(out)] = lastSplit.arg
        ELSE cur = lastSplit.arg

\* C5: split_sentence returns at least one element for every answer, and the
\* one-element list of its argument whenever the answer is not a well-formed
\* JSON array.
C5_SplitTotal ==
    lastSplit.made =>
        /\ Len(lastSplit.res) >= 1
        /\ lastSplit.reply.fmt # "array" => lastSplit.res = <<lastSplit.arg>>

\* C6: at intensity 0.0 the structural stage, on a text of two sentences or
\* more, makes no call and no swap and returns the sentences in their order,
\* joined by single spaces; the only call it can make at 0.0 is the split of a
\* text of one sentence at most that has more than 15 words.
C6_ZeroIntensity ==
    intensity = 0 =>
        /\ Len(split_sentences(text)) >= 2 =>
               /\ stageKinds = {}
               /\ swaps = 0
               /\ pc # "s_reorder"
               /\ pc = "vocabulary" => cur = Join(split_sentences(text))
        /\ anyCall =>
               /\ stageKinds = {[kind |-> "split", tier |-> "none"]}
               /\ Len(split_sentences(text)) <= 1
               /\ WordCount(text) > 15

\* the stage has returned the three sentences or more of a text at intensity
\* 0.0, with the spaces between them made single
C6_Witness ==
    /\ intensity = 0
    /\ Len(split_sentences(text)) >= 3
    /\ pc = "vocabulary"
    /\ applied = <<"structure">>
    /\ cur # text

\* C7: a request with an empty or whitespace-only text ends with an answer
\* that holds an empty text and zero counts, without a call to the
\* collaborator and without an error.
C7_DegenerateInput ==
    IsBlank(text) =>
        /\ ~anyCall
        /\ result.status \notin {"error", "rejected"}
        /\ pc = "done" =>
               /\ result.status = "ok"
               /\ result.transformed = << >>
               /\ result.original_sentence_count = 0
               /\ result.transformed_sentence_count = 0

\* the requests C8 is about: intensity 1.0, all stages, two sentences or more,
\* a collaborator, and every answer so far usable
C8_Case ==
    /\ intensity = 10
    /\ opts = Stages
    /\ Len(split_sentences(text)) >= 2
    /\ client = "ready"
    /\ allUsable

\* C8: at intensity 1.0 with all stages enabled, on a text of two sentences or
\* more and with usable answers to every call, no stage raises, and the
\* answer holds a text that is not empty and has at least one sentence.
C8_FullIntensity ==
    C8_Case =>
        /\ result # Raised
        /\ pc = "done" =>
               /\ result.status = "ok"
               /\ result.transformed # << >>
               /\ result.transformed_sentence_count >= 1

\* such a request was answered with a text of four sentences or more
C8_Witness ==
    /\ C8_Case
    /\ result.status = "ok"
    /\ result.applied_transforms = StageOrder
    /\ result.transformed_sentence_count >= 4

\* C9: the state a request finds is its own: the generator has served no
\* other request, and no collaborator instance is left from another request.
C9_RequestScoped ==
    /\ drawers \subseteq {served}
    /\ pc = "validate" => client = "none"

\* C10: the thresholds and the counts do not fall when the intensity rises,
\* and a sentence that got another action than keep gets another action than
\* keep at every higher intensity with the same draw.
C10_Monotone ==
    /\ \A a \in Intensities, b \in Intensities :
           a <= b =>
               /\ split_threshold(a) <= split_threshold(b)
               /\ merge_threshold(a) <= merge_threshold(b)
               /\ paraphrase_threshold(a) <= paraphrase_threshold(b)
               /\ \A n \in 2..MaxCount :
                      /\ num_swaps(n, a) <= num_swaps(n, b)
                      /\ colloquial_count(n, a) <= colloquial_count(n, b)
                      /\ transition_count(n + 1, a) <= transition_count(n + 1, b)
    /\ \A b \in Intensities :
           (b >= intensity /\ last.act \notin {"none", "keep"}) =>
               performed_action(last.w, b, last.r, last.hasNext) # "keep"

-----------------------------------------------------------------------------
(* Properties of the metrics engine *)

\* the sentence lengths of the sample in hand
Measured == SentenceLengths(sample.sentences)

\* C11: no function of the metrics engine fails, whatever the text and the
\* sentence list, the empty text with the empty list included; a list of
\* fewer than 2 sentence lengths has the variance 0 and the deviation 0.
C11_Total ==
    /\ pc # "raised"
    /\ report.fn # "none" => ~IsError(report.value)
    /\ Len(Measured) < 2 =>
           /\ variance(Measured) = Zero
           /\ std(Measured) = sqrt(Zero)
           /\ pc = "calculated" =>
                  /\ original_metrics.sentence_length_variance = 0
                  /\ original_metrics.sentence_length_std = 0

\* the empty text with the empty sentence list has been measured
C11_Witness ==
    /\ pc = "calculated"
    /\ sample = NoSample
    /\ original_metrics.word_count = 0
    /\ original_metrics.sentence_count = 0

\* C12: analyze_uniformity reports is_suspicious exactly when the uniformity
\* score it reports is above 0.7, for lists of 0 or 1 element too.
C12_SuspiciousIffAbove ==
    report.fn = "analyze_uniformity" =>
        (report.value.is_suspicious
            <=> report.value.uniformity_score * 10 > SuspicionThreshold * Power10(4))

\* the lowered words of the sample in hand
Lowered == lower(sample.words)

NoneRepeats(words) ==
    \A j, k \in DOMAIN words : j # k => words[j] # words[k]

\* C13: the vocabulary diversity lies in [0,1]; for a text with words it is 1
\* exactly when no lowered word repeats; for a text without words it is 0.
C13_Diversity ==
    LET d == vocabulary_diversity(sample.words)
    IN  /\ ~IsError(d)
        /\ 0 <= d.num /\ d.num <= d.den
        /\ sample.words # << >> => (d.num = d.den <=> NoneRepeats(Lowered))
        /\ sample.words = << >> => d.num = 0
        /\ pc = "calculated" =>
               /\ original_metrics.vocabulary_diversity \in 0..Power10(4)
               /\ original_metrics.vocabulary_diversity =
                      RoundRatio(d.num, d.den, 4)

\* a text that repeats a word in another spelling has been measured
C13_Witness ==
    /\ pc = "calculated"
    /\ sample.words = <<Word(1, FALSE), Word(2, FALSE), Word(1, TRUE)>>
    /\ original_metrics.vocabulary_diversity < Power10(4)
    /\ original_metrics.vocabulary_diversity > 0

RECURSIVE SumSquares(_)
SumSquares(values) ==
    IF values = << >> THEN 0
    ELSE Head(values) * Head(values) + SumSquares(Tail(values))

\* C14: the burstiness lies in [-1,1]; it is 0 for fewer than 2 distinct
\* words; for 2 distinct words or more it is (s - m)/(s + m), s the population
\* standard deviation and m the mean of the word frequencies, to within one
\* ten-thousandth, and -1 when every word occurs equally often.
C14_Burstiness ==
    pc = "calculated" =>
        LET b == original_metrics.burstiness
            f == Frequencies(Lowered)
            n == Len(f)
            v == n * SumSquares(f) - Sum(f) * Sum(f)
            t == Root(v, 4).root
            c == Sum(f) * Power10(4)
            gap == b * (t + c) - (t - c) * Power10(4)
        IN  /\ -Power10(4) <= b /\ b <= Power10(4)
            /\ n < 2 => b = 0
            /\ n >= 2 =>
                   /\ -(t + c) <= gap /\ gap <= t + c
                   /\ v = 0 => b = -Power10(4)

\* a text whose words are not equally frequent has been measured
C14_Witness ==
    /\ pc = "calculated"
    /\ Len(Frequencies(Lowered)) >= 2
    /\ original_metrics.burstiness \notin {0, -Power10(4)}

\* C15: for n sentence lengths, n > 0, the percentiles are the elements of
\* the ascending list at floor(0.25 n), floor(0.5 n) and floor(0.75 n), p75
\* the only element when n <= 1; the indices are in range and
\* p25 <= p50 <= p75; for [1,2,3,4,5] p50 is 3; for no length all are 0.
C15_Percentiles ==
    report.fn = "get_percentile_lengths" =>
        LET n == Len(Measured)
            s == sorted(Measured)
            p == report.value
        IN  /\ ~IsError(p)
            /\ n = 0 => p = [p25 |-> 0, p50 |-> 0, p75 |-> 0]
            /\ n > 0 =>
                   /\ \A j \in 1..(n - 1) : s[j] <= s[j + 1]
                   /\ (n * 3) \div 4 < n
                   /\ p.p25 = s[n \div 4 + 1]
                   /\ p.p50 = s[n \div 2 + 1]
                   /\ p.p75 = (IF n <= 1 THEN s[1] ELSE s[(n * 3) \div 4 + 1])
                   /\ p.p25 <= p.p50 /\ p.p50 <= p.p75
            /\ s = <<1, 2, 3, 4, 5>> => p.p50 = 3

\* the percentiles of [1,2,3,4,5] have been taken
C15_Witness ==
    /\ report.fn = "get_percentile_lengths"
    /\ Measured = <<1, 2, 3, 4, 5>>
    /\ report.value = [p25 |-> 2, p50 |-> 3, p75 |-> 4]

Negated(d) == [k \in DOMAIN d |-> -d[k]]

C16_Differences ==
    report.fn = "compare" =>
        LET a == original_metrics
            b == transformed_metrics
            d == report.value
        IN  /\ ~IsError(d)
            /\ d.sentence_count_change = b.sentence_count - a.sentence_count
            /\ d.avg_length_change = b.avg_sentence_length - a.avg_sentence_length
            /\ d.length_std_change = b.sentence_length_std - a.sentence_length_std
            /\ d.vocabulary_diversity_change =
                   b.vocabulary_diversity - a.vocabulary_diversity
            /\ d.burstiness_change = b.burstiness - a.burstiness
            /\ \A k \in DOMAIN d : compare(a, a)[k] = 0 /\ compare(b, b)[k] = 0
            /\ compare(b, a) = Negated(d)

C16_Untouched ==
    report' # report /\ report'.fn = "compare" =>
        UNCHANGED <<original_metrics, transformed_metrics>>

\* C16: compare returns, for the sentence count, the average length, the
\* length deviation, the vocabulary diversity and the burstiness, the value
\* after minus the value before; compare(m, m) is all zeros, compare(a, b)
\* is the negation of compare(b, a), and no snapshot is changed.
C16_Compare == []C16_Differences /\ [][C16_Untouched]_vars

\* two snapshots that differ in every compared metric have been compared
C16_Witness ==
    /\ report.fn = "compare"
    /\ \A k \in DOMAIN report.value : report.value[k] # 0

-----------------------------------------------------------------------------
(* Properties of the segmenter and of the stages *)

\* C17: split_sentences returns at least one fragment for every text of one
\* character or more, the whole normalised text when no pattern yields one.
C17_NeverEmpty ==
    (result.status = "ok" /\ TextLen(text) >= 1) =>
        /\ split_sentences(text) # << >>
        /\ result.original_sentence_count >= 1

\* C18: in the vary-lengths loop a chosen sentence is shortened only when the
\* choice is shorten and it has more than 8 words, lengthened only when the
\* choice is lengthen and it has fewer than 15 words, and left as it is when
\* it fails the gate of its choice; an unchosen sentence is left as it is;
\* the loop puts out one sentence for every sentence it has visited.
C18_LengthGates ==
    /\ pc = "n_vary" => Len(out) = i - 1
    /\ lastVary.act # "none" =>
           /\ lastVary.act = "shorten" =>
                  lastVary.chosen /\ lastVary.shorter /\ lastVary.w > 8
           /\ lastVary.act = "lengthen" =>
                  lastVary.chosen /\ ~lastVary.shorter /\ lastVary.w < 15
           /\ ~lastVary.chosen => lastVary.act = "leave"
           /\ lastVary.act = "leave" => out[Len(out)] = sentences[lastVary.at]

\* the number of times x occurs in the list ss
Occurrences(ss, x) == Cardinality({j \in DOMAIN ss : ss[j] = x})

IsPermutation(p, q) ==
    /\ Len(p) = Len(q)
    /\ \A j \in DOMAIN p : Occurrences(p, p[j]) = Occurrences(q, p[j])

C19_Gate ==
    pc = "s_reorder" =>
        /\ intensity > 6
        /\ Len(out) > 3
        /\ swaps + swapsLeft = ((Len(out) - 2) * intensity * 5) \div 100

C19_Step ==
    /\ (pc = "s_reorder" /\ pc' = "s_reorder") =>
           /\ swaps' = swaps + 1
           /\ IsPermutation(out', out)
           /\ out'[1] = out[1]
           /\ out'[Len(out)] = out[Len(out)]
    /\ (pc = "s_reorder" /\ pc' = "vocabulary") =>
           /\ swapsLeft = 0
           /\ cur' = Join(out)
    /\ (pc = "s_loop" /\ pc' = "s_loop") => IsPrefix(out, out') /\ i' > i
    /\ (pc = "s_loop" /\ pc' = "vocabulary") => cur' = Join(out)

\* C19: the partial reorder runs only at an intensity above 0.6 on more than
\* 3 sentences; every pass leaves the first and the last sentence in place
\* and the list a permutation of what it was; it makes
\* floor((n - 2) * intensity * 0.5) passes; without a reorder the fragments
\* are put out in the order of the sentences they came from.
C19_Reorder == []C19_Gate /\ [][C19_Step]_vars

\* the reorder has made its passes and left the sentences of the text in
\* another order
C19_Witness ==
    /\ pc = "s_reorder"
    /\ swaps >= 1
    /\ swapsLeft = 0
    /\ out # sentences
    /\ IsPermutation(out, sentences)

\* the place of a position of the vocabulary stage in the order of its steps
StepRank(p) ==
    CASE p = "vocabulary" -> 0
      [] p = "v_synonyms" -> 1
      [] p = "v_formality" -> 2
      [] p = "v_colloquial" -> 3
      [] OTHER -> 4

\* the step that is due after the step of rank k
StepDue(k) ==
    IF k < 1 /\ intensity > 3 THEN 1
    ELSE IF k < 2 /\ intensity > 5 THEN 2
    ELSE IF k < 3 /\ intensity > 6 THEN 3
    ELSE 4

C20_Calls ==
    /\ intensity <= 3 => ~anyCall /\ stageKinds = {}
    /\ (pc = "noise" /\ ~failed) =>
           stageKinds =
               (IF intensity > 3
                THEN {[kind |-> "synonyms",
                       tier |-> IF intensity < 5 THEN "low"
                                ELSE IF intensity < 7 THEN "medium"
                                ELSE "high"]}
                ELSE {})
               \cup (IF intensity > 5 THEN {[kind |-> "formality", tier |-> "none"]}
                     ELSE {})

C20_Order ==
    (StepRank(pc) < 4 /\ pc' # pc) =>
        \/ failed' /\ pc' = "done"
        \/ /\ ~failed'
           /\ StepRank(pc') = StepDue(StepRank(pc))
           /\ pc' = "noise" => applied' = <<"vocabulary">>

-----------------------------------------------------------------------------
(* Properties of the steps that pick sentences *)

\* the positions of a pick, as a set
Chosen(pick) == {pick.positions[a] : a \in DOMAIN pick.positions}

\* the positions of a pick are pairwise distinct
Distinct(pick) ==
    \A a, b \in DOMAIN pick.positions :
        a # b => pick.positions[a] # pick.positions[b]

C21_Picks ==
    lastPick.fn = "colloquial" =>
        LET before == lastPick.before
            after == lastPick.after
            n == Len(before)
            floor == (n * intensity * 3) \div 100
            atLeastOne == IF floor > 1 THEN floor ELSE 1
        IN  /\ Len(after) = n
            /\ n < 2 => lastPick.positions = << >> /\ after = before
            /\ n >= 2 =>
                   /\ Len(lastPick.positions) =
                          (IF atLeastOne < n - 1 THEN atLeastOne ELSE n - 1)
                   /\ Distinct(lastPick)
                   /\ Chosen(lastPick) \subseteq 1..(n - 1)
                   /\ after[1] = before[1]
            /\ \A j \in 1..n :
                   IF (j - 1) \in Chosen(lastPick) /\ ~before[j][1].mk
                   THEN /\ after[j][1].mk
                        /\ after[j][1].id > 400
                        /\ SubSeq(after[j], 4, Len(after[j])) = Tail(before[j])
                   ELSE after[j] = before[j]

C21_Returned ==
    pc = "v_colloquial" =>
        /\ pc' = "noise"
        /\ lastPick'.fn = "colloquial"
        /\ lastPick'.before = split_sentences(work)
        /\ cur' = IF Len(lastPick'.before) < 2 THEN work ELSE Join(lastPick'.after)

\* C21: the colloquial step leaves a text of fewer than 2 sentences as it is;
\* on n sentences or more it picks min(max(1, floor(n * intensity * 0.3)),
\* n - 1) pairwise distinct positions among 1..n-1, never the first sentence;
\* a picked sentence gets a marker in front exactly when it does not start
\* with one; every other sentence is left as it is, and the list keeps its
\* length and its order.
C21_Colloquial == []C21_Picks /\ [][C21_Returned]_vars

\* two positions or more were picked, one of a sentence that starts with a
\* marker and one of a sentence that got one
C21_Witness ==
    /\ lastPick.fn = "colloquial"
    /\ Len(lastPick.positions) >= 2
    /\ \E j \in Chosen(lastPick) :
           lastPick.before[j + 1][1].mk /\ lastPick.after[j + 1] = lastPick.before[j + 1]
    /\ \E j \in Chosen(lastPick) : lastPick.after[j + 1] # lastPick.before[j + 1]


\* the positions of a pick go down from one to the next
Descending(pick) ==
    \A a \in DOMAIN pick.positions :
        a > 1 => pick.positions[a] < pick.positions[a - 1]

C22_Picks ==
    lastPick.fn = "transitions" =>
        LET before == lastPick.before
            after == lastPick.after
            n == Len(before)
            floor == (n * intensity * 2) \div 100
            atLeastOne == IF floor > 1 THEN floor ELSE 1
        IN  /\ intensity > 4
            /\ Len(after) = n
            /\ n <= 2 => lastPick.positions = << >> /\ after = before
            /\ n > 2 =>
                   /\ Len(lastPick.positions) =
                          (IF atLeastOne < n - 2 THEN atLeastOne ELSE n - 2)
                   /\ Descending(lastPick)
                   /\ Distinct(lastPick)
                   /\ Chosen(lastPick) \subseteq 1..(n - 2)
                   /\ after[1] = before[1]
                   /\ after[n] = before[n]
            /\ \A j \in 1..n :
                   IF (j - 1) \in Chosen(lastPick)
                   THEN /\ after[j] # before[j]
                        /\ after[j][1].id > 500
                        /\ SubSeq(after[j], 4, Len(after[j])) = Tail(before[j])
                   ELSE after[j] = before[j]

C22_Gate ==
    /\ (pc \in {"noise", "n_vary"} /\ pc' \notin {pc, "n_vary", "done"}) =>
           (pc' = "n_transitions" <=> intensity > 4)
    /\ pc = "n_transitions" =>
           /\ lastPick'.fn = "transitions"
           /\ lastPick'.before = split_sentences(work)
    /\ lastPick'.fn = "transitions" => pc = "n_transitions"

\* C22: the transition step is taken exactly at an intensity above 0.4; on n
\* sentences it changes min(max(1, floor(n * intensity * 0.2)), n - 2)
\* pairwise distinct positions among 1..n-2 when n > 2 and none when n <= 2;
\* the first and the last sentence are left as they are; the positions are
\* visited from the highest to the lowest; the list keeps its length and
\* its order.
C22_Transitions == []C22_Picks /\ [][C22_Gate]_vars

\* two transitions were put into a text of ten sentences, the one at the
\* higher position first
C22_Witness ==
    /\ lastPick.fn = "transitions"
    /\ Len(lastPick.before) = 10
    /\ Len(lastPick.positions) = 2
    /\ lastPick.positions[1] > lastPick.positions[2]
    /\ lastPick.after[lastPick.positions[2] + 1] # lastPick.before[lastPick.positions[2] + 1]


\* the place of a position of the noise stage in the order of its steps
NoiseRank(p) ==
    CASE p \in {"noise", "n_vary"} -> 0
      [] p = "n_transitions" -> 1
      [] p = "n_unpredictability" -> 2
      [] p = "n_flow" -> 3
      [] OTHER -> 4

\* the step of the noise stage that is due after the step of rank k
NoiseDue(k) ==
    IF k < 1 /\ intensity > 4 THEN 1
    ELSE IF k < 2 /\ intensity > 5 THEN 2
    ELSE IF k < 3 /\ intensity > 6 THEN 3
    ELSE 4

\* the text a step of the noise stage has put out
Output == IF pc = "respond" THEN cur ELSE work

C23_Calls ==
    /\ [kind |-> "unpredictability", tier |-> "none"] \in stageKinds =>
           intensity > 5
    /\ (pc = "respond" /\ intensity > 5) =>
           [kind |-> "unpredictability", tier |-> "none"] \in stageKinds
    /\ lastPick.fn = "flow" =>
           LET before == lastPick.before
               after == lastPick.after
               n == Len(before)
           IN  /\ intensity > 6
               /\ Len(lastPick.positions) <= 1
               /\ Len(after) = n
               /\ lastPick.positions # << >> =>
                      /\ n >= 4
                      /\ lastPick.positions[1] \in 1..(n - 2)
               /\ \A j \in 1..n :
                      IF (j - 1) \in Chosen(lastPick)
                      THEN /\ SubSeq(after[j], 1, Len(before[j])) = before[j]
                           /\ Len(after[j]) = Len(before[j]) + 2
                           /\ after[j][Len(after[j])].id > 600
                      ELSE after[j] = before[j]

C23_Order ==
    /\ (NoiseRank(pc) < 4 /\ NoiseRank(pc') # NoiseRank(pc)) =>
           \/ failed' /\ pc' = "done"
           \/ /\ ~failed'
              /\ NoiseRank(pc') = NoiseDue(NoiseRank(pc))
              /\ pc' = "respond" => applied' = <<"noise">>
    /\ (pc \in {"n_transitions", "n_flow"} /\ ~failed') =>
           /\ lastPick'.before = split_sentences(work)
           /\ Output' = IF Len(lastPick'.before) < (IF pc = "n_flow" THEN 4 ELSE 2)
                        THEN work
                        ELSE Join(lastPick'.after)
    /\ (pc = "n_vary" /\ pc' # "n_vary" /\ ~failed') => Output' = Join(out)
    /\ (pc = "n_unpredictability" /\ ~failed') =>
           \E reply \in TextReplies \ {Failure} : Output' = transform_text(reply)

\* C23: the noise stage takes its steps in the order vary-lengths,
\* transitions, unpredictability, parenthetical, each on the text the step
\* before it has put out; the unpredictability call is made exactly above
\* 0.5; the parenthetical step appends one parenthetical at most, only above
\* 0.6, only to a text of 4 sentences or more and never to its first or its
\* last sentence; a step whose gate is open follows the gated steps before it.
C23_NoiseSteps == []C23_Calls /\ [][C23_Order]_vars

\* the stage has returned after the unpredictability call and a parenthetical
\* put behind an inner sentence
C23_Witness ==
    /\ pc = "respond"
    /\ applied = <<"noise">>
    /\ [kind |-> "unpredictability", tier |-> "none"] \in stageKinds
    /\ lastPick.fn = "flow"
    /\ lastPick.positions # << >>
    /\ cur = Join(lastPick.after)


-----------------------------------------------------------------------------
(* Properties of the connector pass *)

\* the alternative set of the key c
AlternativesOf(c) == {Alternative(c, a) : a \in 1..NumAlternatives(c)}

\* the keys that occur in the text t
KeysIn(t) == {c \in 1..NumConnectors : Present(t, c)}

\* C24: the connector pass leaves every text as long as it was and touches
\* nothing but the first occurrence of each key that occurs in its input; a
\* first occurrence is left as it is or replaced by a member of the key's own
\* alternative set; at intensity 0.0 the text is returned as it was; at
\* intensity 1.0 the first occurrence of every key that occurs is replaced by
\* a member of the key's own alternative set.
C24_FirstOccurrence ==
    lastPick.fn = "connectors" =>
        LET before == lastPick.before
            after == lastPick.after
        IN  /\ Len(after) = Len(before)
            /\ intensity = 0 => after = before
            /\ \A j \in 1..Len(before) :
                   IF before[j].cn \in KeysIn(before) /\ j = FirstAt(before, before[j].cn)
                   THEN /\ after[j] \in {before[j]} \cup AlternativesOf(before[j].cn)
                        /\ intensity = 10 => after[j] \in AlternativesOf(before[j].cn)
                   ELSE after[j] = before[j]

\* C25: every substitution of the connector pass replaces an occurrence of a
\* key that stood at that place in the input of the pass, so the pass makes
\* no more substitutions than its input holds distinct keys.
C25_InputOnly ==
    lastPick.fn = "connectors" =>
        /\ \A a \in DOMAIN lastPick.subs :
               lastPick.before[lastPick.subs[a].at].cn = lastPick.subs[a].key
        /\ Len(lastPick.subs) <= Cardinality(KeysIn(lastPick.before))


-----------------------------------------------------------------------------
(* Properties of the structural loop *)

C26_Bounds ==
    pc = "s_loop" =>
        /\ Len(sentences) >= 2
        /\ 1 <= i
        /\ i <= Len(sentences) + 1
        /\ rounds <= Len(sentences)
        /\ rounds = 0 <=> i = 1
        /\ last.act # "none" =>
               /\ last.at <= Len(sentences)
               /\ last.act = "merge" => last.at + 1 <= Len(sentences)

C26_Step ==
    /\ (pc = "s_loop" /\ pc' = "s_loop") =>
           /\ rounds' = rounds + 1
           /\ last'.at = i
           /\ i' = i + (IF last'.act = "merge" THEN 2 ELSE 1)
           /\ calls' = calls + (IF last'.act = "keep" THEN 0 ELSE 1)
    /\ (pc = "s_loop" /\ pc' = "done") =>
           /\ failed'
           /\ calls' = calls + 1
    /\ (pc = "s_loop" /\ pc' \notin {"s_loop", "done"}) =>
           /\ i = Len(sentences) + 1
           /\ calls' = calls

\* C26: the structural loop over n >= 2 sentences makes n passes at most and
\* then ends: the cursor starts at the first sentence, goes on by 2 after a
\* merge and by 1 after a split, a paraphrase or a keep, reads no sentence
\* behind the last one and stands right behind the last one when the loop
\* ends, so that every sentence is taken by one pass; a pass makes one call to
\* the collaborator at most.
C26_Safe == []C26_Bounds /\ [][C26_Step]_vars

C26_Ends == pc = "s_loop" ~> pc # "s_loop"

C26_Loop == C26_Safe /\ C26_Ends

\* the loop has ended after a merge, in fewer passes than sentences
C26_Witness ==
    /\ pc = "s_loop"
    /\ i = Len(sentences) + 1
    /\ rounds < Len(sentences)
    /\ rounds >= 2
    /\ calls >= 2


-----------------------------------------------------------------------------
(* Properties of a request with no stage enabled *)

\* C27: a request with all three stages disabled calls no stage and makes no
\* call to the collaborator; its answer holds the text of the request as the
\* transformed text, an empty applied list, equal sentence counts, equal
\* average lengths, equal deviations and a diversity change of 0; the
\* original text of every answer is the text of the request.
C27_NothingEnabled ==
    /\ result.status = "ok" => result.original = text
    /\ opts = {} =>
           /\ invoked = << >>
           /\ ~anyCall
           /\ calls = 0
           /\ result.status = "ok" =>
                  /\ result.transformed = text
                  /\ result.applied_transforms = << >>
                  /\ result.transformed_sentence_count = result.original_sentence_count
                  /\ result.transformed_avg_length = result.original_avg_length
                  /\ result.transformed_length_std = result.original_length_std
                  /\ result.vocabulary_diversity_change = 0

\* a request with no stage enabled was answered for a text of three sentences
\* of unequal lengths
C27_Witness ==
    /\ opts = {}
    /\ result.status = "ok"
    /\ result.original_sentence_count = 3
    /\ result.original_length_std > 0
    /\ result.transformed = text

=============================================================================
